---- MODULE Spec2Model ----
(***************************************************************************)
(* Model of the sniff session coordinator (Coordinator.handleAgentSession, *)
(* Coordinator.stopSession), the ClaudeRunner it drives and the activity   *)
(* sink (LinearClient) it reports to.                                      *)
(*                                                                         *)
(* JavaScript runs one task at a time and switches tasks only at an        *)
(* `await`.  Every action below is the code that runs between two awaits   *)
(* of one handleAgentSession call: it starts when the awaited promise      *)
(* settles (the \E over ok) and ends when the next promise is awaited.     *)
(* A send is recorded in `sent` when the client method is called, its      *)
(* outcome is chosen when the await resumes.                               *)
(*                                                                         *)
(* The WorktreeManager (with the git commands it runs), ClaudeRunner.run   *)
(* and stop, and buildPromptFromSession are also modelled on their own:    *)
(* WorktreeSpec, RunnerSpec and PromptSpec call them directly, and         *)
(* ProvisionSpec is the coordinator with worktreeManager.create spelled    *)
(* out command by command.  StopSpec lets one more event arrive than there *)
(* are concurrent runs, ContextSpec applies buildContext to every agent    *)
(* definition, and WebhookSpec is the local server's onWebhook with its    *)
(* signature test.                                                         *)
(***************************************************************************)
EXTENDS Integers, Sequences, FiniteSets, TLC

\* ---------------------------------------------------------------- bounds
NumTasks == 2
\* progress events the runner reports, over all runs
MaxProgress == 1
\* rejected sends and raised provisioning calls, over all handlers
MaxFaults == 1
\* progress events fed to one run when the progress mapping is exercised
MaxFeed == 2
\* names in the file paths an Edit reports
MaxSegments == 5
\* calls of create, get, remove and list when the worktree manager is
\* exercised on its own
MaxCalls == 3
\* calls of stop() when the runner is exercised on its own
MaxStops == 2
\* requests the local server receives when it is exercised on its own
MaxRequests == 2

Tasks == 1..NumTasks
\* the calls of handleAgentSession there is room for: Tasks, and one more for
\* a stop signal that arrives while NumTasks runs are in flight
Calls == 1..(NumTasks + 1)
Sessions == {"s1", "s2"}
Null == 0

Signals == {"stop", "none"}
Events == [sessionId : Sessions, signal : Signals]
NoEvent == [sessionId |-> "", signal |-> ""]

\* webhook payloads: p.type, p.action, agentSession.id ("" when missing),
\* whether agentSession.issue is present, agentActivity.signal ("none" when
\* missing or not 'stop'); type 'Comment' stands for the types neither parser
\* of onWebhook accepts
Payloads ==
    [type : {"AgentSessionEvent", "Comment"},
     action : {"created", "prompted", "removed"},
     sessionId : Sessions \cup {""},
     issue : BOOLEAN,
     signal : Signals]
NoPayload == [type |-> "", action |-> "", sessionId |-> "", issue |-> FALSE,
              signal |-> ""]

\* parseAgentSessionEvent without the check of agentSession.id and .issue
parseAgentSessionEvent_NoCheck(p) ==
    IF p.type # "AgentSessionEvent" THEN NoEvent
    ELSE IF p.action \notin {"created", "prompted"} THEN NoEvent
    ELSE [sessionId |-> p.sessionId, signal |-> p.signal]

\* parseAgentSessionEvent: the event, or NoEvent for null
parseAgentSessionEvent(p) ==
    IF p.type # "AgentSessionEvent" THEN NoEvent
    ELSE IF p.action \notin {"created", "prompted"} THEN NoEvent
    ELSE IF p.sessionId = "" \/ ~p.issue THEN NoEvent
    ELSE [sessionId |-> p.sessionId, signal |-> p.signal]

\* the configuration the coordinator was constructed with
Configs == {"noAgent", "noRunner", "claude"}

\* ------------------------------------------------------------ activities
\* body is the activity's body (an action's label); param is an action's
\* parameter: <<>> for the empty string, a path spelled out in characters, or
\* a one-element sequence holding any other text
Thought(b) == [type |-> "thought", body |-> b, param |-> <<>>, ephemeral |-> FALSE]
EphemeralThought(b) == [type |-> "thought", body |-> b, param |-> <<>>, ephemeral |-> TRUE]
ActionAct(a, p) == [type |-> "action", body |-> a, param |-> p, ephemeral |-> FALSE]
Response(b) == [type |-> "response", body |-> b, param |-> <<>>, ephemeral |-> FALSE]
ErrorAct(b) == [type |-> "error", body |-> b, param |-> <<>>, ephemeral |-> FALSE]

AckThought == Thought("Sniffing out the issue...")
TrailThought == Thought("Following the trail...")
PreparingAction == ActionAct("Preparing", <<"the hunting grounds">>)
StoppedResponse == Response("Stopped as requested.")
ProcessingFailed == ErrorAct("Processing failed")

\* ------------------------------------------------------------ the runner
\* what the SDK's query() stream ends with
SdkOutcomes ==
    {[kind |-> "success", text |-> x] : x \in {"undefined", "", "Fixed it."}}
    \cup {[kind |-> "noResult", text |-> ""]}
    \cup {[kind |-> "errorResult", text |-> x] : x \in {"undefined", "", "boom"}}
    \cup {[kind |-> "throw", text |-> "sdk failed"]}
    \cup {[kind |-> "abort", text |-> "AbortError"]}

NoResult == [success |-> FALSE, output |-> "none", error |-> "none"]

\* ClaudeRunner.run: the RunnerResult it resolves with
ClaudeRunResult(o) ==
    CASE o.kind = "success" ->
            [success |-> TRUE,
             output |-> IF o.text = "undefined" THEN "Task completed." ELSE o.text,
             error |-> ""]
      [] o.kind = "noResult" ->
            [success |-> TRUE, output |-> "", error |-> ""]
      [] o.kind = "errorResult" ->
            [success |-> FALSE, output |-> "",
             error |-> IF o.text = "undefined" THEN "Unknown error" ELSE o.text]
      [] o.kind = "abort" ->
            [success |-> FALSE, output |-> "", error |-> "Task was stopped"]
      [] OTHER ->
            [success |-> FALSE, output |-> "", error |-> o.text]

\* TerminalActivity without the `|| default` substitutions
TerminalActivity_NoDefault(r) ==
    IF r.success THEN Response(r.output) ELSE ErrorAct(r.error)

\* handleAgentSession step 7: the terminal activity for a RunnerResult
TerminalActivity(r) ==
    IF r.success
    THEN Response(IF r.output = "" THEN "Tracked it down." ELSE r.output)
    ELSE ErrorAct(IF r.error = "" THEN "Unknown error occurred" ELSE r.error)

\* ------------------------------------------------------- path shortening
\* filePath.split('/') on a path spelled out in characters
RECURSIVE Split(_)
Split(f) ==
    IF \A i \in DOMAIN f : f[i] # "/"
    THEN <<f>>
    ELSE LET k == CHOOSE i \in DOMAIN f :
                      f[i] = "/" /\ \A j \in 1..(i - 1) : f[j] # "/"
         IN  <<SubSeq(f, 1, k - 1)>> \o Split(SubSeq(f, k + 1, Len(f)))

\* segments.join('/')
RECURSIVE Join(_)
Join(segs) ==
    IF Len(segs) = 0 THEN <<>>
    ELSE IF Len(segs) = 1 THEN segs[1]
    ELSE segs[1] \o <<"/">> \o Join(Tail(segs))

\* segments.slice(-3)
LastThree(segs) ==
    SubSeq(segs, IF Len(segs) > 3 THEN Len(segs) - 2 ELSE 1, Len(segs))

\* Coordinator.shortenPath
shortenPath(filePath) ==
    LET segments == Split(filePath)
    IN  IF Len(segments) <= 3 THEN filePath
        ELSE <<".", ".", ".", "/">> \o Join(LastThree(segments))

\* the file paths a tool input carries: relative (a/b/c) or absolute
\* (/a/b/c), of up to MaxSegments names; <<>> is the empty path
SegmentName(i) == <<"a", "b", "c", "d", "e", "f", "g", "h">>[((i - 1) % 8) + 1]
PathOf(absolute, n) ==
    Join((IF absolute THEN <<<<>>>> ELSE <<>>) \o [i \in 1..n |-> <<SegmentName(i)>>])
Paths == {<<>>} \cup {PathOf(abs, n) : abs \in BOOLEAN, n \in 1..MaxSegments}
LongestPath == PathOf(TRUE, MaxSegments)

\* ------------------------------------------------------------ workspaces
\* Strings the worktree manager computes with are spelled out in characters.
\* a session belongs to one issue (agentSession.issue.identifier)
IssueOf(s) ==
    IF s = "s1" THEN <<"A", "B", "C", "-", "1">>
    ELSE <<"A", "B", "C", "-", "1", "2">>

\* the identifiers create, get and remove are called with: those of the
\* sessions and one that is not spelled like a Linear identifier
IssueIds == {IssueOf(s) : s \in Sessions} \cup {<<"A", "B", "C", ".", "1">>}

\* the directory the coordinator was started in
RepositoryPath == <<"/", "r", "e", "p", "o">>
\* WorktreeManager.basePath
BasePath == <<"/", "w">>

\* the characters of the class [a-zA-Z0-9-_]
SafeChars ==
    {"a", "b", "c", "d", "e", "f", "g", "h", "i", "j", "k", "l", "m", "n", "o",
     "p", "q", "r", "s", "t", "u", "v", "w", "x", "y", "z",
     "A", "B", "C", "D", "E", "F", "G", "H", "I", "J", "K", "L", "M", "N", "O",
     "P", "Q", "R", "S", "T", "U", "V", "W", "X", "Y", "Z",
     "0", "1", "2", "3", "4", "5", "6", "7", "8", "9", "-", "_"}

\* sanitizeId keeping only the first five characters of the identifier
sanitizeId_Prefix(issueId) ==
    [i \in 1..(IF Len(issueId) < 5 THEN Len(issueId) ELSE 5) |->
        IF issueId[i] \in SafeChars THEN issueId[i] ELSE "-"]

\* WorktreeManager.sanitizeId: issueId.replace(/[^a-zA-Z0-9-_]/g, '-')
sanitizeId(issueId) ==
    [i \in 1..Len(issueId) |-> IF issueId[i] \in SafeChars THEN issueId[i] ELSE "-"]

\* join(this.basePath, sanitizedId)
WorktreePath(issue) == Join(<<BasePath, sanitizeId(issue)>>)

\* `sniff/${sanitizedId}`
BranchName(issue) == <<"s", "n", "i", "f", "f", "/">> \o sanitizeId(issue)

\* haystack.includes(needle)
Includes(haystack, needle) ==
    \E i \in 0..(Len(haystack) - Len(needle)) :
        SubSeq(haystack, i + 1, i + Len(needle)) = needle

\* one working copy in git's registry, and its two lines in the output of
\* `git worktree list --porcelain`
Entry(path, branch) == [path |-> path, branch |-> branch]
PathLine(e) == <<"w", "o", "r", "k", "t", "r", "e", "e", " ">> \o e.path
BranchLine(e) ==
    <<"b", "r", "a", "n", "c", "h", " ", "r", "e", "f", "s", "/",
      "h", "e", "a", "d", "s", "/">> \o e.branch

\* stdout.includes(s) for the output that lists the entries of stdout
StdoutIncludes(stdout, s) ==
    \E i \in DOMAIN stdout :
        Includes(PathLine(stdout[i]), s) \/ Includes(BranchLine(stdout[i]), s)

\* the repository's own working copy, and one a user added next to the base
\* directory
MainEntry == Entry(RepositoryPath, <<"m", "a", "i", "n">>)
StrayEntry == Entry(<<"/", "w", "2", "/", "x">>, <<"x">>)

\* path.split('/').pop()
LastSegment(path) == Split(path)[Len(Split(path))]

\* the WorktreeInfo list() builds for an entry (createdAt left out)
WorktreeInfo(e) ==
    [issueId |-> LastSegment(e.path), path |-> e.path, branch |-> e.branch]

\* list()'s loop over the entries of stdout
RECURSIVE ListedInfos(_)
ListedInfos(stdout) ==
    IF stdout = <<>> THEN <<>>
    ELSE (IF Includes(PathLine(Head(stdout)), BasePath)
          THEN <<WorktreeInfo(Head(stdout))>> ELSE <<>>)
         \o ListedInfos(Tail(stdout))

\* the registry after `git worktree remove path --force`
RECURSIVE WithoutPath(_, _)
WithoutPath(registry, path) ==
    IF registry = <<>> THEN <<>>
    ELSE (IF Head(registry).path = path THEN <<>> ELSE <<Head(registry)>>)
         \o WithoutPath(Tail(registry), path)

\* git has a working copy at path / has branch checked out in a working copy
Registered(registry, path) == \E i \in DOMAIN registry : registry[i].path = path
CheckedOut(registry, branch) == \E i \in DOMAIN registry : registry[i].branch = branch

\* ------------------------------------------------------- the prompt message
\* an optional string: undefined, or its characters
Undefined == [present |-> FALSE, value |-> <<>>]
Str(chars) == [present |-> TRUE, value |-> chars]
\* `if (x)` for an optional string
Truthy(x) == x.present /\ x.value # <<>>

\* the texts of the events given to buildPromptFromSession
Titles == {<<"B", "u", "g">>}
Descriptions == {Undefined, Str(<<>>), Str(<<"I", "t", " ", "c", "r", "a", "s", "h", "e", "s">>)}
CommentBodies ==
    {Undefined, Str(<<>>),
     Str(<<"@", "s", "n", "i", "f", "f">>),
     Str(<<"@", "s", "n", "i", "f", "f", " ", "f", "i", "x", " ", "i", "t", " ">>),
     Str(<<"f", "i", "x", " ", "@", "s", "n", "i", "f", "f", " ", "@", " ", "i", "t">>),
     Str(<<"f", "i", "x", " ", "i", "t">>)}
PromptContexts == {<<>>, <<"<", "i", "s", "s", "u", "e", "/", ">">>}

\* the fields of an AgentSessionEvent that buildPromptFromSession reads, and
\* its action
SessionEvents ==
    [action : {"created", "prompted"},
     identifier : {IssueOf("s1")},
     title : Titles,
     description : Descriptions,
     comment : CommentBodies,
     promptContext : PromptContexts]
NoSessionEvent ==
    [action |-> "", identifier |-> <<>>, title |-> <<>>, description |-> Undefined,
     comment |-> Undefined, promptContext |-> <<>>]

\* body.replace(/@\S+\s*/g, ''): what follows the match that starts at an '@'
RECURSIVE SkipWord(_)
SkipWord(b) == IF b = <<>> \/ Head(b) = " " THEN b ELSE SkipWord(Tail(b))
RECURSIVE SkipSpaces(_)
SkipSpaces(b) == IF b # <<>> /\ Head(b) = " " THEN SkipSpaces(Tail(b)) ELSE b

RECURSIVE StripMentions(_)
StripMentions(b) ==
    IF b = <<>> THEN <<>>
    ELSE IF Head(b) = "@" /\ Len(b) > 1 /\ b[2] # " "
         THEN StripMentions(SkipSpaces(SkipWord(Tail(b))))
         ELSE <<Head(b)>> \o StripMentions(Tail(b))

\* s.trim()
RECURSIVE Trim(_)
Trim(b) ==
    IF b = <<>> THEN b
    ELSE IF Head(b) = " " THEN Trim(Tail(b))
    ELSE IF b[Len(b)] = " " THEN Trim(SubSeq(b, 1, Len(b) - 1))
    ELSE b

\* the message is kept as the sequence of the pieces appended to it: the
\* fixed text a piece starts with, and the text put after it
Piece(head, text) == [head |-> head, text |-> text]
TitleLine(e) == Piece("Issue: ", e.identifier \o <<" ", "-", " ">> \o e.title)

\* buildPromptFromSession adding the description piece unconditionally
buildPromptFromSession_NoTest(e) ==
    LET userMessage == Trim(StripMentions(e.comment.value))
    IN  <<TitleLine(e)>>
        \o <<Piece("Description:", e.description.value)>>
        \o (IF Truthy(e.comment) /\ userMessage # <<>>
            THEN <<Piece("User request:", userMessage)>> ELSE <<>>)
        \o (IF e.promptContext # <<>>
            THEN <<Piece("Context:", e.promptContext)>> ELSE <<>>)

\* buildPromptFromSession
buildPromptFromSession(e) ==
    LET userMessage == Trim(StripMentions(e.comment.value))
    IN  <<TitleLine(e)>>
        \o (IF Truthy(e.description)
            THEN <<Piece("Description:", e.description.value)>> ELSE <<>>)
        \o (IF Truthy(e.comment) /\ userMessage # <<>>
            THEN <<Piece("User request:", userMessage)>> ELSE <<>>)
        \o (IF e.promptContext # <<>>
            THEN <<Piece("Context:", e.promptContext)>> ELSE <<>>)

\* ------------------------------------------------------ the webhook request
\* request bodies: agent session events, a payload no parser accepts, a legacy
\* Issue payload, and text that is not JSON
Bodies == {"created", "stop", "comment", "issue", "notJson"}

\* JSON.parse(body) throws
NotJson(body) == body = "notJson"

\* JSON.parse(body); for an Issue payload `issue` says that data.id is present
JsonParse(body) ==
    CASE body = "created" ->
            [type |-> "AgentSessionEvent", action |-> "created", sessionId |-> "s1",
             issue |-> TRUE, signal |-> "none"]
      [] body = "stop" ->
            [type |-> "AgentSessionEvent", action |-> "prompted", sessionId |-> "s1",
             issue |-> TRUE, signal |-> "stop"]
      [] body = "issue" ->
            [type |-> "Issue", action |-> "created", sessionId |-> "",
             issue |-> TRUE, signal |-> "none"]
      [] OTHER ->
            [type |-> "Comment", action |-> "created", sessionId |-> "",
             issue |-> FALSE, signal |-> "none"]

\* parseWebhook returns an event
parseWebhookAccepts(p) == p.type = "Issue" /\ p.issue

\* the secrets a digest is made with: the server's and another
Keys == {<<"k", "e", "y">>, <<"b", "a", "d">>}

\* createHmac('sha256', secret).update(payload).digest('hex'), taken to be
\* free of collisions: two digests are equal only for the same secret and
\* the same payload
HmacSha256Hex(secret, payload) == <<"hmac-sha256", secret, payload>>

\* verifyWebhookSignature
verifyWebhookSignature(payload, signature, secret) ==
    signature = HmacSha256Hex(secret, payload)

\* request.headers.get('linear-signature'): null, the empty string, a digest
Signatures ==
    {Undefined, Str(<<>>)} \cup {Str(HmacSha256Hex(k, b)) : k \in Keys, b \in Bodies}

Requests == [body : Bodies, signature : Signatures]

\* env.linearWebhookSecret: unset, or the secret
WebhookSecrets == {Undefined, Str(<<"k", "e", "y">>)}

\* what onWebhook answers and which handler it calls
Answer(status, dispatched) == [status |-> status, dispatched |-> dispatched]

\* the onWebhook of startCommand: the signature test, then the two parsers
onWebhook(secret, r) ==
    IF Truthy(secret) /\ Truthy(r.signature)
       /\ ~verifyWebhookSignature(r.body, r.signature.value, secret.value)
    THEN Answer(401, "none")
    ELSE IF NotJson(r.body) THEN Answer(500, "none")
    ELSE IF parseAgentSessionEvent(JsonParse(r.body)) # NoEvent
         THEN Answer(200, "handleAgentSession")
    ELSE IF parseWebhookAccepts(JsonParse(r.body))
         THEN Answer(200, "handleWebhook")
    ELSE Answer(200, "none")

\* ----------------------------------------------------- the runner context
\* the names under which an agent definition declares MCP servers
McpNames == {"linear", "github"}
\* the server configurations it declares (McpServerSchema: always an object)
DeclaredServers ==
    {[type |-> "stdio", target |-> "linear-mcp", authorization |-> Undefined],
     [type |-> "http", target |-> "https://mcp.example/linear",
      authorization |-> Str(<<"k", "e", "y">>)]}

\* an optional Record<string, McpServer>: undefined, or its entries
NoMcpServers == [present |-> FALSE, servers |-> <<>>]
McpServers(f) == [present |-> TRUE, servers |-> f]
McpMaps ==
    {NoMcpServers}
    \cup {McpServers(f) : f \in UNION {[d -> DeclaredServers] : d \in SUBSET McpNames}}

\* `mcpServers?.[name]` is an object
Declares(m, name) == m.present /\ name \in DOMAIN m.servers

\* permissionMode of the options: "undefined" when it is left out
PermissionModes == {"undefined", "plan"}

\* agent.runner.claude: undefined, or the options buildContext reads
NoOptions == [present |-> FALSE, mcpServers |-> NoMcpServers,
              permissionMode |-> "undefined"]
ClaudeOptions ==
    [present : {TRUE}, mcpServers : McpMaps, permissionMode : PermissionModes]
AgentConfigs == {[claude |-> o] : o \in {NoOptions} \cup ClaudeOptions}

\* Coordinator.linearAccessToken: undefined, the empty string, a token
AccessTokens == {Undefined, Str(<<>>), Str(<<"t", "o", "k">>)}

\* the server buildContext injects for an access token
LinearMcp(token) ==
    [type |-> "sse", target |-> "https://mcp.linear.app/sse",
     authorization |-> Str(<<"B", "e", "a", "r", "e", "r", " ">> \o token.value)]

\* { ...mcpServers, [name]: server }
Spread(m, name, server) ==
    McpServers([n \in (IF m.present THEN DOMAIN m.servers ELSE {}) \cup {name} |->
                    IF n = name THEN server ELSE m.servers[n]])

\* getRunnerOptions
getRunnerOptions(agent) == agent.claude

\* null, as buildContext returns it
NoContext == [present |-> FALSE, workingDirectory |-> <<>>,
              mcpServers |-> NoMcpServers, permissionMode |-> ""]

\* buildContext injecting the Linear server whenever there is a token
buildContext_Overwrite(agent, workingDirectory, token) ==
    LET options == getRunnerOptions(agent)
    IN  IF ~options.present THEN NoContext
        ELSE [present |-> TRUE,
              workingDirectory |-> workingDirectory,
              mcpServers |-> IF Truthy(token)
                             THEN Spread(options.mcpServers, "linear", LinearMcp(token))
                             ELSE options.mcpServers,
              permissionMode |-> IF options.permissionMode = "undefined"
                                 THEN "acceptEdits" ELSE options.permissionMode]

\* buildContext: the fields of the RunnerContext that are not copied as they are
buildContext(agent, workingDirectory, token) ==
    LET options == getRunnerOptions(agent)
    IN  IF ~options.present THEN NoContext
        ELSE [present |-> TRUE,
              workingDirectory |-> workingDirectory,
              mcpServers |-> IF Truthy(token) /\ ~Declares(options.mcpServers, "linear")
                             THEN Spread(options.mcpServers, "linear", LinearMcp(token))
                             ELSE options.mcpServers,
              permissionMode |-> IF options.permissionMode = "undefined"
                                 THEN "acceptEdits" ELSE options.permissionMode]

\* ------------------------------------------------------ progress mapping
\* a RunnerProgress as ClaudeRunner reports it; description, subagent and
\* filePath are metadata.input's description, subagent_type and file_path
ToolUse(tool, description, subagent, filePath) ==
    [type |-> "tool_use", tool |-> tool, description |-> description,
     subagent |-> subagent, filePath |-> filePath, content |-> tool]
Content(type, content) ==
    [type |-> type, tool |-> "", description |-> "", subagent |-> "",
     filePath |-> <<>>, content |-> content]

ProgressEvents ==
    {ToolUse("Task", "", "", <<>>), ToolUse("Task", "Explore the repo", "Explore", <<>>)}
    \cup {ToolUse("Edit", "", "", f) : f \in Paths}
    \cup {ToolUse("Write", "", "", f) : f \in {<<>>, LongestPath}}
    \cup {ToolUse("Read", "", "", LongestPath)}
    \cup {Content("output", c) : c \in {"12345678901234567890", "123456789012345678901"}}
    \cup {Content("thinking", "hmm")}
    \cup {Content("error", "oops")}

\* the progress events the runner reports in the coordinator's runs: one that
\* maps to a persistent activity, one to an ephemeral one, one to none
RunProgressEvents ==
    {p \in ProgressEvents :
        \/ p.type = "tool_use" /\ p.tool = "Edit" /\ p.filePath = LongestPath
        \/ p.type = "tool_use" /\ p.tool = "Read"
        \/ p.type = "output" /\ Len(p.content) = 20}

NoActivity == [type |-> "none", body |-> "", param |-> <<>>, ephemeral |-> FALSE]

\* ProgressActivity showing every tool use as a persistent thought
ProgressActivity_Persistent(p) ==
    CASE p.type = "tool_use" /\ p.tool = "Task" ->
            ActionAct(IF p.description = "" THEN "Running subtask" ELSE p.description,
                      IF p.subagent = "" THEN <<>> ELSE <<p.subagent>>)
      [] p.type = "tool_use" /\ p.tool \in {"Edit", "Write"} ->
            ActionAct(IF p.tool = "Edit" THEN "Editing" ELSE "Writing",
                      IF p.filePath = <<>> THEN <<>> ELSE shortenPath(p.filePath))
      [] p.type = "tool_use" -> Thought("Nose to the ground...")
      [] p.type = "output" /\ p.content # "" /\ Len(p.content) > 20 -> Thought(p.content)
      [] p.type = "thinking" -> EphemeralThought("Nose to the ground...")
      [] OTHER -> NoActivity

\* ProgressActivity with the rule for 'Edit'/'Write' widened to 'Task' and
\* tried first
ProgressActivity_EditFirst(p) ==
    CASE p.type = "tool_use" /\ p.tool \in {"Edit", "Write", "Task"} ->
            ActionAct(IF p.tool = "Edit" THEN "Editing" ELSE "Writing",
                      IF p.filePath = <<>> THEN <<>> ELSE shortenPath(p.filePath))
      [] p.type = "tool_use" -> EphemeralThought("Nose to the ground...")
      [] p.type = "output" /\ p.content # "" /\ Len(p.content) > 20 -> Thought(p.content)
      [] p.type = "thinking" -> EphemeralThought("Nose to the ground...")
      [] OTHER -> NoActivity

\* ProgressActivity with the threshold compared with >=
ProgressActivity_AtLeast(p) ==
    CASE p.type = "tool_use" /\ p.tool = "Task" ->
            ActionAct(IF p.description = "" THEN "Running subtask" ELSE p.description,
                      IF p.subagent = "" THEN <<>> ELSE <<p.subagent>>)
      [] p.type = "tool_use" /\ p.tool \in {"Edit", "Write"} ->
            ActionAct(IF p.tool = "Edit" THEN "Editing" ELSE "Writing",
                      IF p.filePath = <<>> THEN <<>> ELSE shortenPath(p.filePath))
      [] p.type = "tool_use" -> EphemeralThought("Nose to the ground...")
      [] p.type = "output" /\ p.content # "" /\ Len(p.content) >= 20 -> Thought(p.content)
      [] p.type = "thinking" -> EphemeralThought("Nose to the ground...")
      [] OTHER -> NoActivity

\* the progress callback handed to runner.run: the activity it sends
ProgressActivity(p) ==
    CASE p.type = "tool_use" /\ p.tool = "Task" ->
            ActionAct(IF p.description = "" THEN "Running subtask" ELSE p.description,
                      IF p.subagent = "" THEN <<>> ELSE <<p.subagent>>)
      [] p.type = "tool_use" /\ p.tool \in {"Edit", "Write"} ->
            ActionAct(IF p.tool = "Edit" THEN "Editing" ELSE "Writing",
                      IF p.filePath = <<>> THEN <<>> ELSE shortenPath(p.filePath))
      [] p.type = "tool_use" -> EphemeralThought("Nose to the ground...")
      [] p.type = "output" /\ p.content # "" /\ Len(p.content) > 20 -> Thought(p.content)
      [] p.type = "thinking" -> EphemeralThought("Nose to the ground...")
      [] OTHER -> NoActivity

VARIABLES
    config,            \* Coordinator.config: which agent definition exists
    linearAccessToken, \* Coordinator.linearAccessToken is set
    activeSessions,    \* Coordinator.activeSessions (its keys)
    regOwner,          \* regOwner[s]: the call whose activeSessions.set made s's entry
    abortController,   \* ClaudeRunner.abortController: the run that made it, or Null
    aborted,           \* aborted[t]: the AbortController made by t's run was aborted
    call,              \* call[t]: one handleAgentSession call, its position and locals
    stoppedRun,        \* stoppedRun[t]: "Stopped as requested." was sent for t's run
    inflight,          \* inflight[t]: progress sends of t's run not yet settled
    progressCount,     \* progress events the runner has reported so far
    faults,            \* awaited calls that rejected so far
    isRepository,      \* repositoryPath is a git repository
    worktrees,         \* git's registry of working copies, in the order it lists them
    branches,          \* the branches of the repository
    wt,                \* wt[k]: caller k's call of a WorktreeManager method
    wtCalls,           \* WorktreeManager methods called so far
    acquired,          \* identifiers create has returned a path for
    runner,            \* the calls of ClaudeRunner.run and stop made directly
    prompt,            \* an event and the message buildPromptFromSession made of it
    context,           \* an agent, a token and the RunnerContext buildContext made
    server             \* the local server: its secret and the requests it got

gitVars == <<isRepository, worktrees, branches>>
wtVars == <<wt, wtCalls, acquired>>
\* the components that are also exercised on their own
componentVars == <<gitVars, wtVars, runner, prompt, context, server>>

vars == <<config, linearAccessToken, activeSessions, regOwner, abortController,
          aborted, call, stoppedRun, inflight, progressCount, faults,
          componentVars>>

\* what no step of a handler changes: the configuration, and the state of the
\* components while they are driven by the coordinator's abstraction of them
coordVars == <<config, linearAccessToken, componentVars>>
\* the coordinator's own state
handlerVars == <<config, linearAccessToken, activeSessions, regOwner, call,
                 stoppedRun, inflight, progressCount>>
registryVars == <<activeSessions, regOwner>>
runnerVars == <<abortController, aborted>>

\* a call that has not arrived yet
IdleCall ==
    [pc |-> "idle",
     ev |-> NoEvent,           \* the event it handles
     worktreePath |-> <<>>,    \* its local worktreePath
     createCalled |-> FALSE,   \* it called worktreeManager.create
     createRaised |-> FALSE,   \* ... which raised
     runCwd |-> <<>>,          \* context.workingDirectory of its runner.run call
     runs |-> 0,               \* how many times it invoked runner.run
     progressFailed |-> FALSE, \* a send of its progress callback rejected
     produced |-> <<>>,        \* the progress events its run reported, in order
     payload |-> NoPayload,    \* the payload onWebhook ignored instead of calling it
     result |-> NoResult,      \* what its runner.run resolved with
     sent |-> <<>>,            \* the client sends it made, in order
     sendFailed |-> FALSE,     \* a send it awaited rejected
     stopCalledBy |-> FALSE,   \* it invoked runner.stop()
     stopTarget |-> Null]      \* the run whose registry entry its stop found

\* a call that has returned: its locals are gone, the event it handled is kept
DoneCall(e) == [IdleCall EXCEPT !.pc = "done", !.ev = e]
\* call c has returned: what is kept of it
Done(c) == [DoneCall(c.ev) EXCEPT !.runs = c.runs]
\* a webhook request that ended without a call of handleAgentSession
DroppedCall(p) == [IdleCall EXCEPT !.pc = "dropped", !.payload = p]
\* a call whose promise rejected
RejectedCall(e) == [IdleCall EXCEPT !.pc = "rejected", !.ev = e]

\* a caller of the worktree manager that has no call in progress
IdleOp ==
    [op |-> "none",            \* the method called
     pc |-> "idle",            \* the command it awaits, or returned / raised
     issueId |-> <<>>,         \* its argument
     worktreePath |-> <<>>,    \* its local worktreePath
     branchName |-> <<>>,      \* its local branchName
     again |-> FALSE,          \* create had returned a path for issueId before
     reused |-> FALSE,         \* the list output contained worktreePath
     attempts |-> 0,           \* `git worktree add` commands it has issued
     branchExisted |-> FALSE,  \* the first attempt met an existing branch
     cmdFailed |-> FALSE,      \* a command it awaited failed
     known |-> <<>>,           \* the registry when its list command ran
     result |-> <<>>]          \* what it returned

\* a call of ClaudeRunner.run that has not been made
IdleRun ==
    [pc |-> "idle",            \* streaming, resolved or rejected
     onProgress |-> FALSE,     \* it was given a progress callback
     progress |-> 0,           \* onProgress invocations
     resolutions |-> 0,        \* how often its promise was resolved
     stopped |-> FALSE,        \* stop() was called while it alone was in flight
     result |-> NoResult]

\* the runner before any call: run[r] is the r-th call of run, stops the
\* calls of stop() so far
NoRuns == [run |-> [r \in Tasks |-> IdleRun], stops |-> 0]

\* no event has been given to buildPromptFromSession
NoPrompt == [built |-> FALSE, event |-> NoSessionEvent, message |-> <<>>]

\* buildContext has not been called
NoBuild == [built |-> FALSE, agent |-> [claude |-> NoOptions], token |-> Undefined,
            workingDirectory |-> <<>>, result |-> NoContext]

\* the local server before any request
NoServer == [secret |-> Undefined, handled |-> <<>>]

\* the components at rest: a repository with its own working copy only
ComponentInit ==
    /\ isRepository = TRUE
    /\ worktrees = <<MainEntry>>
    /\ branches = {MainEntry.branch}
    /\ wt = [k \in Tasks |-> IdleOp]
    /\ wtCalls = 0
    /\ acquired = {}
    /\ runner = NoRuns
    /\ prompt = NoPrompt
    /\ context = NoBuild
    /\ server = NoServer

HandlerInit ==
    /\ activeSessions = {}
    /\ regOwner = [s \in Sessions |-> Null]
    /\ abortController = Null
    /\ aborted = [t \in Calls |-> FALSE]
    /\ call = [t \in Calls |-> IdleCall]
    /\ stoppedRun = [t \in Calls |-> FALSE]
    /\ inflight = [t \in Calls |-> 0]
    /\ progressCount = 0
    /\ faults = 0

Init ==
    /\ ComponentInit
    /\ config \in Configs
    /\ linearAccessToken \in BOOLEAN
    /\ HandlerInit

\* call t continues as record c
Becomes(t, c) == call' = [call EXCEPT ![t] = c]

\* call t returns (or rejects): its locals and its run's controller are dropped
Returns(t, c) ==
    /\ Becomes(t, c)
    /\ stoppedRun' = [stoppedRun EXCEPT ![t] = FALSE]

\* activity a as the client sends it for session sid
Addressed(sid, a) ==
    [to |-> sid, type |-> a.type, body |-> a.body, param |-> a.param,
     ephemeral |-> a.ephemeral]

\* c after one more client send (every send passes the event's sessionId)
Sending(c, a) == [c EXCEPT !.sent = Append(@, Addressed(c.ev.sessionId, a))]

\* c after a send it awaited rejected
Failed(c) == [c EXCEPT !.sendFailed = TRUE]

\* the promise a handler awaits settles: fulfilled (ok) or rejected
Settled(ok) ==
    /\ ok \/ faults < MaxFaults
    /\ faults' = IF ok THEN faults ELSE faults + 1

\* events arrive in the order of their call numbers
Arrives(t) ==
    /\ call[t].pc = "idle"
    /\ \A u \in 1..(t - 1) : call[u].pc # "idle"

\* ------------------------------------------------------------ the runner
\* ClaudeRunner.stop: abort the controller the field points to, clear the field
RunnerStop ==
    /\ aborted' = IF abortController # Null
                  THEN [aborted EXCEPT ![abortController] = TRUE]
                  ELSE aborted
    /\ abortController' = Null

\* ClaudeRunner.run up to its first await: a fresh controller in the field
RunnerRunStarts(t) ==
    /\ abortController' = t
    /\ aborted' = [aborted EXCEPT ![t] = FALSE]

\* ------------------------------------------------- Coordinator.stopSession
\* StopSessionLookup calling this.runner.stop() without consulting the registry
StopSessionLookup_Always(t, e) ==
    /\ RunnerStop
    /\ IF e.sessionId \in activeSessions
       THEN /\ Becomes(t, [IdleCall EXCEPT !.pc = "stopping", !.ev = e,
                                           !.stopCalledBy = TRUE,
                                           !.stopTarget = regOwner[e.sessionId]])
            /\ UNCHANGED stoppedRun
       ELSE Returns(t, DoneCall(e))

\* stopSession up to its first await: look the session up, call runner.stop()
StopSessionLookup(t, e) ==
    IF e.sessionId \in activeSessions
    THEN /\ RunnerStop
         /\ Becomes(t, [IdleCall EXCEPT !.pc = "stopping", !.ev = e,
                                        !.stopCalledBy = TRUE,
                                        !.stopTarget = regOwner[e.sessionId]])
         /\ UNCHANGED stoppedRun
    ELSE /\ Returns(t, DoneCall(e))
         /\ UNCHANGED runnerVars

\* handleAgentSession called with a stop signal
HandleStop(t, e) ==
    /\ Arrives(t)
    /\ e.signal = "stop"
    /\ StopSessionLookup(t, e)
    /\ UNCHANGED <<coordVars, registryVars, inflight, progressCount, faults>>

\* the registry after activeSessions.delete(sid)
RegistryDelete(reg, sid) == reg \ {sid}

\* StopResumes without the activeSessions.delete
StopResumes_NoDelete(t) ==
    /\ call[t].pc = "stopping"
    /\ Becomes(t, Sending([call[t] EXCEPT !.pc = "stopResp"], StoppedResponse))
    /\ stoppedRun' = [r \in Calls |->
            IF r = call[t].stopTarget /\ call[r].pc \notin {"idle", "done"}
            THEN TRUE ELSE stoppedRun[r]]
    /\ UNCHANGED <<coordVars, registryVars, runnerVars, inflight, progressCount,
                   faults>>

\* stopSession after `await session.runner.stop()`: delete, send the response
StopResumes(t) ==
    /\ call[t].pc = "stopping"
    /\ activeSessions' = RegistryDelete(activeSessions, call[t].ev.sessionId)
    /\ regOwner' = [regOwner EXCEPT ![call[t].ev.sessionId] = Null]
    /\ Becomes(t, Sending([call[t] EXCEPT !.pc = "stopResp"], StoppedResponse))
    /\ stoppedRun' = [r \in Calls |->
            IF r = call[t].stopTarget /\ call[r].pc \notin {"idle", "done"}
            THEN TRUE ELSE stoppedRun[r]]
    /\ UNCHANGED <<coordVars, runnerVars, inflight, progressCount, faults>>

\* stopSession after `await client.sendResponse(...)`: a rejection is not
\* caught on this path and rejects handleAgentSession
StopRespSettles(t) ==
    /\ call[t].pc = "stopResp"
    /\ \E ok \in BOOLEAN :
         /\ Settled(ok)
         /\ Returns(t, IF ok THEN DoneCall(call[t].ev) ELSE RejectedCall(call[t].ev))
    /\ UNCHANGED <<coordVars, registryVars, runnerVars, inflight, progressCount>>

\* -------------------------------------------- Coordinator.handleAgentSession
\* the outer catch: try to send the error to Linear
EnterCatch(c) == Sending([c EXCEPT !.pc = "catchErr"], ProcessingFailed)

\* HandleStart with the acknowledgment left out: provisioning starts at once
HandleStart_NoAck(t, e) ==
    /\ Arrives(t)
    /\ e.signal # "stop"
    /\ Becomes(t, Sending([IdleCall EXCEPT !.pc = "preparing", !.ev = e],
                          PreparingAction))
    /\ UNCHANGED <<coordVars, registryVars, runnerVars, stoppedRun, inflight,
                   progressCount, faults>>

\* handleAgentSession called without a stop signal: step 1, the acknowledgment
HandleStart(t, e) ==
    /\ Arrives(t)
    /\ e.signal # "stop"
    /\ Becomes(t, Sending([IdleCall EXCEPT !.pc = "ack", !.ev = e], AckThought))
    /\ UNCHANGED <<coordVars, registryVars, runnerVars, stoppedRun, inflight,
                   progressCount, faults>>

\* after the acknowledgment: step 2 (agent) and the start of step 3
AckSettles(t) ==
    /\ call[t].pc = "ack"
    /\ \E ok \in BOOLEAN :
         /\ Settled(ok)
         /\ Becomes(t,
              IF ~ok THEN EnterCatch(Failed(call[t]))
              ELSE IF config = "noAgent"
                   THEN Sending([call[t] EXCEPT !.pc = "noAgentErr"],
                                ErrorAct("No agent configured"))
                   ELSE Sending([call[t] EXCEPT !.pc = "preparing"], PreparingAction))
    /\ UNCHANGED <<coordVars, registryVars, runnerVars, stoppedRun, inflight,
                   progressCount>>

\* after sendError('No agent configured') / sendError('No runner configured ...')
EarlyErrorSettles(t) ==
    /\ call[t].pc \in {"noAgentErr", "noRunnerErr"}
    /\ \E ok \in BOOLEAN :
         /\ Settled(ok)
         /\ IF ok
            THEN Returns(t, Done(call[t]))
            ELSE Becomes(t, EnterCatch(Failed(call[t]))) /\ UNCHANGED stoppedRun
    /\ UNCHANGED <<coordVars, registryVars, runnerVars, inflight, progressCount>>

\* the directory the inner catch falls back to
FallbackPath == RepositoryPath

\* AfterProvisioning going on without the test of the context
AfterProvisioning_NoTest(c) ==
    IF linearAccessToken
    THEN [c EXCEPT !.pc = "prefetch"]
    ELSE Sending([c EXCEPT !.pc = "trail"], TrailThought)

\* steps 4 and 5 up to the next await, for a call c whose worktreePath is set
AfterProvisioning(c) ==
    IF config = "noRunner"
    THEN Sending([c EXCEPT !.pc = "noRunnerErr"],
                 ErrorAct("No runner configured for agent"))
    ELSE IF linearAccessToken
         THEN [c EXCEPT !.pc = "prefetch"]
         ELSE Sending([c EXCEPT !.pc = "trail"], TrailThought)

\* call c after sendAction('Preparing', ...) settled: it calls
\* worktreeManager.create, or, when the send rejected, is in the inner catch
PreparingOutcome(c, ok) ==
    IF ok
    THEN [c EXCEPT !.pc = "create", !.createCalled = TRUE]
    ELSE AfterProvisioning([Failed(c) EXCEPT !.worktreePath = FallbackPath])

\* after sendAction('Preparing', ...): call worktreeManager.create, or, when
\* the send rejected, the inner catch
PreparingSettles(t) ==
    /\ call[t].pc = "preparing"
    /\ \E ok \in BOOLEAN :
         /\ Settled(ok)
         /\ Becomes(t, PreparingOutcome(call[t], ok))
    /\ UNCHANGED <<coordVars, registryVars, runnerVars, stoppedRun, inflight,
                   progressCount>>

\* CreateSettles without the inner try/catch: a raise reaches the outer catch
CreateSettles_Abort(t) ==
    /\ call[t].pc = "create"
    /\ \E raised \in BOOLEAN :
         /\ Settled(~raised)
         /\ Becomes(t,
              IF raised
              THEN EnterCatch([call[t] EXCEPT !.createRaised = TRUE])
              ELSE AfterProvisioning(
                     [call[t] EXCEPT !.worktreePath =
                                         WorktreePath(IssueOf(call[t].ev.sessionId))]))
    /\ UNCHANGED <<coordVars, registryVars, runnerVars, stoppedRun, inflight,
                   progressCount>>

\* call c after worktreeManager.create resolved with path, or raised
CreateOutcome(c, raised, path) ==
    AfterProvisioning([c EXCEPT !.createRaised = raised,
                                !.worktreePath = IF raised THEN FallbackPath
                                                 ELSE path])

\* worktreeManager.create resolved with the path or raised
CreateSettles(t) ==
    /\ call[t].pc = "create"
    /\ \E raised \in BOOLEAN :
         /\ Settled(~raised)
         /\ Becomes(t, CreateOutcome(call[t], raised,
                                     WorktreePath(IssueOf(call[t].ev.sessionId))))
    /\ UNCHANGED <<coordVars, registryVars, runnerVars, stoppedRun, inflight,
                   progressCount>>

\* prefetchLinearAttachments resolved or raised (caught): step 6 begins
PrefetchSettles(t) ==
    /\ call[t].pc = "prefetch"
    /\ Becomes(t, Sending([call[t] EXCEPT !.pc = "trail"], TrailThought))
    /\ UNCHANGED <<coordVars, registryVars, runnerVars, stoppedRun, inflight,
                   progressCount, faults>>

\* activeSessions.set(sessionId, { runner })
RegistrySet(reg, sid) == reg \cup {sid}

\* TrailSettles waiting until no other call's run is executing
TrailSettles_Serial(t) ==
    /\ call[t].pc = "trail"
    /\ \A u \in Tasks \ {t} : call[u].pc # "running"
    /\ \E ok \in BOOLEAN :
         /\ Settled(ok)
         /\ IF ok
            THEN /\ activeSessions' = RegistrySet(activeSessions, call[t].ev.sessionId)
                 /\ regOwner' = [regOwner EXCEPT ![call[t].ev.sessionId] = t]
                 /\ RunnerRunStarts(t)
                 /\ Becomes(t, [call[t] EXCEPT !.pc = "running",
                                               !.runCwd = call[t].worktreePath,
                                               !.runs = @ + 1])
            ELSE /\ Becomes(t, EnterCatch(Failed(call[t])))
                 /\ UNCHANGED <<registryVars, runnerVars>>
    /\ UNCHANGED <<coordVars, stoppedRun, inflight, progressCount>>

\* after sendThought('Following the trail...'): register, call runner.run
TrailSettles(t) ==
    /\ call[t].pc = "trail"
    /\ \E ok \in BOOLEAN :
         /\ Settled(ok)
         /\ IF ok
            THEN /\ activeSessions' = RegistrySet(activeSessions, call[t].ev.sessionId)
                 /\ regOwner' = [regOwner EXCEPT ![call[t].ev.sessionId] = t]
                 /\ RunnerRunStarts(t)
                 /\ Becomes(t, [call[t] EXCEPT !.pc = "running",
                                               !.runCwd = call[t].worktreePath,
                                               !.runs = @ + 1])
            ELSE /\ Becomes(t, EnterCatch(Failed(call[t])))
                 /\ UNCHANGED <<registryVars, runnerVars>>
    /\ UNCHANGED <<coordVars, stoppedRun, inflight, progressCount>>

\* ProgressCallback sending the newest activity ahead of the earlier ones
ProgressCallback_Unordered(t, p) ==
    /\ call[t].pc = "running"
    /\ progressCount' = progressCount + 1
    /\ LET c == [call[t] EXCEPT !.produced = Append(@, p)]
       IN  IF ProgressActivity(p) = NoActivity
           THEN Becomes(t, c) /\ UNCHANGED inflight
           ELSE /\ Becomes(t, [c EXCEPT !.sent =
                        <<Addressed(c.ev.sessionId, ProgressActivity(p))>> \o @])
                /\ inflight' = [inflight EXCEPT ![t] = @ + 1]
    /\ UNCHANGED <<coordVars, registryVars, runnerVars, stoppedRun, faults>>

\* the runner calls onProgress(p) without awaiting it; the callback runs up to
\* its first await, that is, it starts at most one send
ProgressCallback(t, p) ==
    /\ call[t].pc = "running"
    /\ progressCount' = progressCount + 1
    /\ LET c == [call[t] EXCEPT !.produced = Append(@, p)]
       IN  IF ProgressActivity(p) = NoActivity
           THEN Becomes(t, c) /\ UNCHANGED inflight
           ELSE /\ Becomes(t, Sending(c, ProgressActivity(p)))
                /\ inflight' = [inflight EXCEPT ![t] = @ + 1]
    /\ UNCHANGED <<coordVars, registryVars, runnerVars, stoppedRun, faults>>

\* the runner reports a progress event in one of the coordinator's runs
RunnerProgress(t, p) ==
    /\ progressCount < MaxProgress
    /\ ProgressCallback(t, p)

\* the runner reports a progress event while the progress mapping is exercised
FeedProgress(t, p) ==
    /\ progressCount < MaxFeed
    /\ ProgressCallback(t, p)

\* ProgressSendSettles where a rejected send interrupts the run
ProgressSendSettles_NoCatch(t) ==
    /\ inflight[t] > 0
    /\ inflight' = [inflight EXCEPT ![t] = @ - 1]
    /\ \E ok \in BOOLEAN :
         /\ Settled(ok)
         /\ IF ok \/ call[t].pc \notin {"running", "terminal"}
            THEN UNCHANGED <<call, runnerVars>>
            ELSE /\ Becomes(t, [call[t] EXCEPT !.progressFailed = TRUE])
                 /\ aborted' = [aborted EXCEPT ![t] = TRUE]
                 /\ UNCHANGED abortController
    /\ UNCHANGED <<coordVars, registryVars, stoppedRun, progressCount>>

\* a send started by the progress callback settles; its .catch logs a
\* rejection and the callback's promise is fulfilled either way
ProgressSendSettles(t) ==
    /\ inflight[t] > 0
    /\ inflight' = [inflight EXCEPT ![t] = @ - 1]
    /\ \E ok \in BOOLEAN :
         /\ Settled(ok)
         /\ IF ok \/ call[t].pc \notin {"running", "terminal"}
            THEN UNCHANGED call
            ELSE Becomes(t, [call[t] EXCEPT !.progressFailed = TRUE])
    /\ UNCHANGED <<coordVars, registryVars, runnerVars, stoppedRun, progressCount>>

\* RunResolves invoking runner.run again after a failure
RunResolves_Retry(t, o) ==
    /\ call[t].pc = "running"
    /\ (o.kind = "abort") <=> aborted[t]
    /\ IF ClaudeRunResult(o).success \/ call[t].runs >= 2
       THEN /\ abortController' = Null
            /\ aborted' = [aborted EXCEPT ![t] = FALSE]
            /\ Becomes(t, Sending([call[t] EXCEPT !.pc = "terminal",
                                                  !.result = ClaudeRunResult(o)],
                                  TerminalActivity(ClaudeRunResult(o))))
       ELSE /\ RunnerRunStarts(t)
            /\ Becomes(t, [call[t] EXCEPT !.runs = @ + 1])
    /\ UNCHANGED <<coordVars, registryVars, stoppedRun, inflight, progressCount,
                   faults>>

\* runner.run resolves (its finally clears the field); step 7 starts the
\* terminal send.  An aborted stream ends with AbortError and only then.
RunResolves(t, o) ==
    /\ call[t].pc = "running"
    /\ (o.kind = "abort") <=> aborted[t]
    /\ abortController' = Null
    /\ aborted' = [aborted EXCEPT ![t] = FALSE]
    /\ Becomes(t, Sending([call[t] EXCEPT !.pc = "terminal",
                                          !.result = ClaudeRunResult(o)],
                          TerminalActivity(ClaudeRunResult(o))))
    /\ UNCHANGED <<coordVars, registryVars, stoppedRun, inflight, progressCount,
                   faults>>

\* the finally block: remove from active sessions
FinallyDelete(t) ==
    /\ activeSessions' = RegistryDelete(activeSessions, call[t].ev.sessionId)
    /\ regOwner' = [regOwner EXCEPT ![call[t].ev.sessionId] = Null]

\* TerminalSettles with the delete after the send instead of in a finally block
TerminalSettles_NoFinally(t) ==
    /\ call[t].pc = "terminal"
    /\ \E ok \in BOOLEAN :
         /\ Settled(ok)
         /\ IF ok
            THEN FinallyDelete(t) /\ Returns(t, Done(call[t]))
            ELSE /\ Becomes(t, EnterCatch(Failed(call[t])))
                 /\ UNCHANGED <<registryVars, stoppedRun>>
    /\ UNCHANGED <<coordVars, runnerVars, inflight, progressCount>>

\* the terminal send settles: finally, and the outer catch when it rejected
TerminalSettles(t) ==
    /\ call[t].pc = "terminal"
    /\ FinallyDelete(t)
    /\ \E ok \in BOOLEAN :
         /\ Settled(ok)
         /\ IF ok
            THEN Returns(t, Done(call[t]))
            ELSE Becomes(t, EnterCatch(Failed(call[t]))) /\ UNCHANGED stoppedRun
    /\ UNCHANGED <<coordVars, runnerVars, inflight, progressCount>>

\* the catch block's sendError settles; its rejection is ignored
CatchErrSettles(t) ==
    /\ call[t].pc = "catchErr"
    /\ Returns(t, Done(call[t]))
    /\ UNCHANGED <<coordVars, registryVars, runnerVars, inflight, progressCount,
                   faults>>

\* onWebhook: parse the payload and call handleAgentSession without awaiting
\* it, or ignore the payload
OnWebhook(t, p) ==
    IF parseAgentSessionEvent(p) = NoEvent
    THEN /\ Arrives(t)
         /\ Becomes(t, DroppedCall(p))
         /\ UNCHANGED <<coordVars, registryVars, runnerVars, stoppedRun, inflight,
                        progressCount, faults>>
    ELSE \/ HandleStop(t, parseAgentSessionEvent(p))
         \/ HandleStart(t, parseAgentSessionEvent(p))

Next ==
    \/ \E t \in Tasks, p \in Payloads : OnWebhook(t, p)
    \/ \E t \in Tasks : StopResumes(t)
    \/ \E t \in Tasks : StopRespSettles(t)
    \/ \E t \in Tasks : AckSettles(t)
    \/ \E t \in Tasks : EarlyErrorSettles(t)
    \/ \E t \in Tasks : PreparingSettles(t)
    \/ \E t \in Tasks : CreateSettles(t)
    \/ \E t \in Tasks : PrefetchSettles(t)
    \/ \E t \in Tasks : TrailSettles(t)
    \/ \E t \in Tasks, p \in RunProgressEvents : RunnerProgress(t, p)
    \/ \E t \in Tasks : ProgressSendSettles(t)
    \/ \E t \in Tasks, o \in SdkOutcomes : RunResolves(t, o)
    \/ \E t \in Tasks : TerminalSettles(t)
    \/ \E t \in Tasks : CatchErrSettles(t)

Spec == Init /\ [][Next]_vars

\* `await session.runner.stop()` awaits a promise that is already settled: the
\* event loop runs the continuation
FairSpec == Spec /\ \A t \in Tasks : WF_vars(StopResumes(t))

\* one event handled with an agent and a runner configured, its run reporting
\* up to MaxFeed progress events of every kind
ProgressInit ==
    /\ Init
    /\ config = "claude"
    /\ ~linearAccessToken

ProgressNext ==
    \/ \E p \in Payloads : OnWebhook(1, p)
    \/ AckSettles(1)
    \/ PreparingSettles(1)
    \/ CreateSettles(1)
    \/ TrailSettles(1)
    \/ \E p \in ProgressEvents : FeedProgress(1, p)
    \/ ProgressSendSettles(1)
    \/ \E o \in SdkOutcomes : RunResolves(1, o)
    \/ TerminalSettles(1)
    \/ CatchErrSettles(1)

ProgressSpec == ProgressInit /\ [][ProgressNext]_vars

\* ------------------------------------------------------- WorktreeManager
\* Every git command runs atomically at the step in which the promise of its
\* execAsync settles.
\* caller k has no call in progress
Free(k) == wt[k].pc \in {"idle", "returned", "raised"}

\* caller k's call becomes c
Op(k, c) == wt' = [wt EXCEPT ![k] = c]

\* one more method call
Called == wtCalls < MaxCalls /\ wtCalls' = wtCalls + 1

\* the promise of an execAsync settles: git accepts the command or not, and a
\* command git would accept can still fail
GitSettles(accepts, ok) ==
    /\ ok => accepts
    /\ IF accepts THEN Settled(ok) ELSE UNCHANGED faults

\* create up to its first await: the three locals, then the list command
CreateCalled(k, issueId) ==
    Op(k, [IdleOp EXCEPT !.op = "create", !.pc = "list", !.issueId = issueId,
                         !.worktreePath = WorktreePath(issueId),
                         !.branchName = BranchName(issueId),
                         !.again = issueId \in acquired])

WorktreeCreate(k, issueId) ==
    /\ Free(k)
    /\ Called
    /\ CreateCalled(k, issueId)
    /\ UNCHANGED <<handlerVars, runnerVars, faults, gitVars, acquired, runner,
                   prompt, context, server>>

\* create returns the path
CreateReturns(k, c) ==
    /\ Op(k, [c EXCEPT !.pc = "returned", !.result = c.worktreePath])
    /\ acquired' = acquired \cup {c.issueId}

\* what `git worktree add -b branch path` needs / `git worktree add path branch`
AddAccepts(c) ==
    /\ isRepository
    /\ c.branchName \notin branches
    /\ ~Registered(worktrees, c.worktreePath)
AttachAccepts(c) ==
    /\ isRepository
    /\ c.branchName \in branches
    /\ ~Registered(worktrees, c.worktreePath)
    /\ ~CheckedOut(worktrees, c.branchName)

\* the working copy git makes
GitAdds(c) ==
    /\ worktrees' = Append(worktrees, Entry(c.worktreePath, c.branchName))
    /\ branches' = branches \cup {c.branchName}
    /\ UNCHANGED isRepository

\* after `git worktree list --porcelain`: reuse, or the first attempt
CreateListSettles(k) ==
    /\ wt[k].op = "create" /\ wt[k].pc = "list"
    /\ \E ok \in BOOLEAN :
         /\ GitSettles(isRepository, ok)
         /\ IF ok /\ StdoutIncludes(worktrees, wt[k].worktreePath)
            THEN CreateReturns(k, [wt[k] EXCEPT !.reused = TRUE])
            ELSE /\ Op(k, [wt[k] EXCEPT !.pc = "add", !.attempts = 1,
                                        !.cmdFailed = ~ok])
                 /\ UNCHANGED acquired
    /\ UNCHANGED <<handlerVars, runnerVars, gitVars, wtCalls, runner, prompt, context, server>>

\* CreateAddSettles raising when the first attempt fails
CreateAddSettles_NoRetry(k) ==
    /\ wt[k].op = "create" /\ wt[k].pc = "add"
    /\ \E ok \in BOOLEAN :
         /\ GitSettles(AddAccepts(wt[k]), ok)
         /\ IF ok
            THEN GitAdds(wt[k]) /\ CreateReturns(k, wt[k])
            ELSE /\ Op(k, [wt[k] EXCEPT !.pc = "raised", !.cmdFailed = TRUE,
                                        !.branchExisted = wt[k].branchName \in branches])
                 /\ UNCHANGED <<gitVars, acquired>>
    /\ UNCHANGED <<handlerVars, runnerVars, wtCalls, runner, prompt, context, server>>

\* after `git worktree add -b`: return the path, or the second attempt
CreateAddSettles(k) ==
    /\ wt[k].op = "create" /\ wt[k].pc = "add"
    /\ \E ok \in BOOLEAN :
         /\ GitSettles(AddAccepts(wt[k]), ok)
         /\ IF ok
            THEN GitAdds(wt[k]) /\ CreateReturns(k, wt[k])
            ELSE /\ Op(k, [wt[k] EXCEPT !.pc = "attach", !.attempts = 2,
                                        !.cmdFailed = TRUE,
                                        !.branchExisted = wt[k].branchName \in branches])
                 /\ UNCHANGED <<gitVars, acquired>>
    /\ UNCHANGED <<handlerVars, runnerVars, wtCalls, runner, prompt, context, server>>

\* after `git worktree add path branch`: return the path, or raise
CreateAttachSettles(k) ==
    /\ wt[k].op = "create" /\ wt[k].pc = "attach"
    /\ \E ok \in BOOLEAN :
         /\ GitSettles(AttachAccepts(wt[k]), ok)
         /\ IF ok
            THEN GitAdds(wt[k]) /\ CreateReturns(k, wt[k])
            ELSE /\ Op(k, [wt[k] EXCEPT !.pc = "raised"])
                 /\ UNCHANGED <<gitVars, acquired>>
    /\ UNCHANGED <<handlerVars, runnerVars, wtCalls, runner, prompt, context, server>>

\* WorktreeGet joining the base path with the identifier as given
WorktreeGet_Raw(k, issueId) ==
    /\ Free(k)
    /\ Called
    /\ Op(k, [IdleOp EXCEPT !.op = "get", !.pc = "returned", !.issueId = issueId,
                            !.worktreePath = Join(<<BasePath, issueId>>),
                            !.result = Join(<<BasePath, issueId>>)])
    /\ UNCHANGED <<handlerVars, runnerVars, faults, gitVars, acquired, runner,
                   prompt, context, server>>

\* get: no await, the path is returned at once
WorktreeGet(k, issueId) ==
    /\ Free(k)
    /\ Called
    /\ Op(k, [IdleOp EXCEPT !.op = "get", !.pc = "returned", !.issueId = issueId,
                            !.worktreePath = WorktreePath(issueId),
                            !.result = WorktreePath(issueId)])
    /\ UNCHANGED <<handlerVars, runnerVars, faults, gitVars, acquired, runner,
                   prompt, context, server>>

\* remove up to its await: the path, then the remove command
WorktreeRemove(k, issueId) ==
    /\ Free(k)
    /\ Called
    /\ Op(k, [IdleOp EXCEPT !.op = "remove", !.pc = "remove", !.issueId = issueId,
                            !.worktreePath = WorktreePath(issueId)])
    /\ acquired' = acquired \ {issueId}
    /\ UNCHANGED <<handlerVars, runnerVars, faults, gitVars, runner, prompt, context, server>>

\* what `git worktree remove path --force` needs
RemoveAccepts(c) == isRepository /\ Registered(worktrees, c.worktreePath)

\* RemoveSettles letting the failure of the command escape
RemoveSettles_Raise(k) ==
    /\ wt[k].op = "remove" /\ wt[k].pc = "remove"
    /\ \E ok \in BOOLEAN :
         /\ GitSettles(RemoveAccepts(wt[k]), ok)
         /\ IF ok
            THEN /\ worktrees' = WithoutPath(worktrees, wt[k].worktreePath)
                 /\ Op(k, [wt[k] EXCEPT !.pc = "returned"])
            ELSE /\ Op(k, [wt[k] EXCEPT !.pc = "raised", !.cmdFailed = TRUE])
                 /\ UNCHANGED worktrees
    /\ UNCHANGED <<handlerVars, runnerVars, isRepository, branches, wtCalls,
                   acquired, runner, prompt, context, server>>

\* after `git worktree remove`: a failure is logged, the call returns
RemoveSettles(k) ==
    /\ wt[k].op = "remove" /\ wt[k].pc = "remove"
    /\ \E ok \in BOOLEAN :
         /\ GitSettles(RemoveAccepts(wt[k]), ok)
         /\ worktrees' = IF ok THEN WithoutPath(worktrees, wt[k].worktreePath)
                         ELSE worktrees
         /\ Op(k, [wt[k] EXCEPT !.pc = "returned", !.cmdFailed = ~ok])
    /\ UNCHANGED <<handlerVars, runnerVars, isRepository, branches, wtCalls,
                   acquired, runner, prompt, context, server>>

\* list up to its await
WorktreeList(k) ==
    /\ Free(k)
    /\ Called
    /\ Op(k, [IdleOp EXCEPT !.op = "list", !.pc = "listing"])
    /\ UNCHANGED <<handlerVars, runnerVars, faults, gitVars, acquired, runner,
                   prompt, context, server>>

\* after `git worktree list --porcelain`: the infos, or [] when it failed
ListSettles(k) ==
    /\ wt[k].op = "list" /\ wt[k].pc = "listing"
    /\ \E ok \in BOOLEAN :
         /\ GitSettles(isRepository, ok)
         /\ Op(k, [wt[k] EXCEPT !.pc = "returned", !.cmdFailed = ~ok,
                                !.known = worktrees,
                                !.result = IF ok THEN ListedInfos(worktrees)
                                           ELSE <<>>])
    /\ UNCHANGED <<handlerVars, runnerVars, gitVars, wtCalls, acquired, runner,
                   prompt, context, server>>

\* the worktree manager called by up to NumTasks concurrent callers, in a
\* directory that is a repository or not, with or without a working copy
\* that a user added by hand
WorktreeInit ==
    /\ HandlerInit
    /\ config = "claude"
    /\ linearAccessToken = FALSE
    /\ isRepository \in BOOLEAN
    /\ worktrees \in (IF isRepository
                      THEN {<<MainEntry>>, <<MainEntry, StrayEntry>>}
                      ELSE {<<>>})
    /\ branches = {worktrees[i].branch : i \in DOMAIN worktrees}
    /\ wt = [k \in Tasks |-> IdleOp]
    /\ wtCalls = 0
    /\ acquired = {}
    /\ runner = NoRuns
    /\ prompt = NoPrompt
    /\ context = NoBuild
    /\ server = NoServer

WorktreeNext ==
    \/ \E k \in Tasks, issueId \in IssueIds : WorktreeCreate(k, issueId)
    \/ \E k \in Tasks : CreateListSettles(k)
    \/ \E k \in Tasks : CreateAddSettles(k)
    \/ \E k \in Tasks : CreateAttachSettles(k)
    \/ \E k \in Tasks, issueId \in IssueIds : WorktreeGet(k, issueId)
    \/ \E k \in Tasks, issueId \in IssueIds : WorktreeRemove(k, issueId)
    \/ \E k \in Tasks : RemoveSettles(k)
    \/ \E k \in Tasks : WorktreeList(k)
    \/ \E k \in Tasks : ListSettles(k)

WorktreeSpec == WorktreeInit /\ [][WorktreeNext]_vars

\* --------------------------------- the coordinator with its worktree manager
\* PreparingSettles with the call of worktreeManager.create spelled out:
\* create runs up to its list command in the same step
ProvisionStarts(t) ==
    /\ call[t].pc = "preparing"
    /\ \E ok \in BOOLEAN :
         /\ Settled(ok)
         /\ Becomes(t, PreparingOutcome(call[t], ok))
         /\ IF ok THEN CreateCalled(t, IssueOf(call[t].ev.sessionId))
            ELSE UNCHANGED wt
    /\ UNCHANGED <<config, linearAccessToken, registryVars, runnerVars, stoppedRun,
                   inflight, progressCount, gitVars, wtCalls, acquired, runner,
                   prompt, context, server>>

\* CreateSettles with the outcome of the create call that the handler awaits
ProvisionResumes(t) ==
    /\ call[t].pc = "create"
    /\ wt[t].pc \in {"returned", "raised"}
    /\ Becomes(t, CreateOutcome(call[t], wt[t].pc = "raised", wt[t].result))
    /\ Op(t, IdleOp)
    /\ UNCHANGED <<config, linearAccessToken, registryVars, runnerVars, stoppedRun,
                   inflight, progressCount, faults, gitVars, wtCalls, acquired,
                   runner, prompt, context, server>>

\* an agent with a runner is configured; the directory the coordinator was
\* started in is a repository or not
ProvisionInit ==
    /\ HandlerInit
    /\ config = "claude"
    /\ linearAccessToken = FALSE
    /\ isRepository \in BOOLEAN
    /\ worktrees = IF isRepository THEN <<MainEntry>> ELSE <<>>
    /\ branches = {worktrees[i].branch : i \in DOMAIN worktrees}
    /\ wt = [k \in Tasks |-> IdleOp]
    /\ wtCalls = 0
    /\ acquired = {}
    /\ runner = NoRuns
    /\ prompt = NoPrompt
    /\ context = NoBuild
    /\ server = NoServer

ProvisionNext ==
    \/ \E t \in Tasks, p \in Payloads : OnWebhook(t, p)
    \/ \E t \in Tasks : StopResumes(t)
    \/ \E t \in Tasks : StopRespSettles(t)
    \/ \E t \in Tasks : AckSettles(t)
    \/ \E t \in Tasks : ProvisionStarts(t)
    \/ \E t \in Tasks : CreateListSettles(t)
    \/ \E t \in Tasks : CreateAddSettles(t)
    \/ \E t \in Tasks : CreateAttachSettles(t)
    \/ \E t \in Tasks : ProvisionResumes(t)
    \/ \E t \in Tasks : TrailSettles(t)
    \/ \E t \in Tasks, o \in SdkOutcomes : RunResolves(t, o)
    \/ \E t \in Tasks : TerminalSettles(t)
    \/ \E t \in Tasks : CatchErrSettles(t)

ProvisionSpec == ProvisionInit /\ [][ProvisionNext]_vars

\* the steps of call t after its event arrived: each runs when the promise it
\* awaits has settled
StepOf(t) ==
    \/ StopResumes(t)
    \/ StopRespSettles(t)
    \/ AckSettles(t)
    \/ ProvisionStarts(t)
    \/ CreateListSettles(t)
    \/ CreateAddSettles(t)
    \/ CreateAttachSettles(t)
    \/ ProvisionResumes(t)
    \/ TrailSettles(t)
    \/ \E o \in SdkOutcomes : RunResolves(t, o)
    \/ TerminalSettles(t)
    \/ CatchErrSettles(t)

\* the promises the last call awaits settle and the event loop runs its
\* continuations; nothing is assumed about the calls before it, each of which
\* may wait forever for its git command, its run or its send
IsolationSpec == ProvisionSpec /\ WF_vars(StepOf(NumTasks))

\* ------------------------------------------- stop signals among several runs
\* an agent with a runner is configured and there is no access token; up to
\* NumTasks + 1 agent session events arrive, so that a stop signal can
\* arrive while NumTasks runs are in flight
StopInit ==
    /\ Init
    /\ config = "claude"
    /\ ~linearAccessToken

\* the payloads that are agent session events
Accepted == {p \in Payloads : parseAgentSessionEvent(p) # NoEvent}

StopNext ==
    \/ \E t \in Calls, p \in Accepted : OnWebhook(t, p)
    \/ \E t \in Calls : StopResumes(t)
    \/ \E t \in Calls : StopRespSettles(t)
    \/ \E t \in Calls : AckSettles(t)
    \/ \E t \in Calls : PreparingSettles(t)
    \/ \E t \in Calls : CreateSettles(t)
    \/ \E t \in Calls : TrailSettles(t)
    \/ \E t \in Calls, o \in SdkOutcomes : RunResolves(t, o)
    \/ \E t \in Calls : TerminalSettles(t)
    \/ \E t \in Calls : CatchErrSettles(t)

StopSpec == StopInit /\ [][StopNext]_vars

\* ------------------------------------------------------------ ClaudeRunner
\* the content blocks and messages of the SDK stream that run looks at: a
\* thinking or text block (empty or not), a tool_use block, anything else
Blocks == {"thinking", "emptyThinking", "text", "emptyText", "tool_use", "other"}

\* run reports block b when it has a callback
Reported(b) == b \in {"thinking", "text", "tool_use"}

\* run r becomes c
Run(r, c) == runner' = [runner EXCEPT !.run[r] = c]

\* run(message, context, onProgress) up to the first await of the stream
RunCalled(r, onProgress) ==
    /\ runner.run[r].pc = "idle"
    /\ \A q \in 1..(r - 1) : runner.run[q].pc # "idle"
    /\ RunnerRunStarts(r)
    /\ Run(r, [IdleRun EXCEPT !.pc = "streaming", !.onProgress = onProgress])
    /\ UNCHANGED <<handlerVars, faults, gitVars, wtVars, prompt, context, server>>

\* the result a throwing progress callback leads to
CallbackFailed == [success |-> FALSE, output |-> "", error |-> "callback failed"]

\* the stream yields a block: onProgress is invoked for it, not awaited; a
\* callback that throws ends the run in the catch block.  The stream of an
\* aborted query yields nothing more, its next event is the AbortError.
StreamYields(r, b, threw) ==
    /\ runner.run[r].pc = "streaming"
    /\ ~aborted[r]
    /\ runner.run[r].progress < MaxFeed
    /\ threw => Reported(b) /\ runner.run[r].onProgress
    /\ IF Reported(b) /\ runner.run[r].onProgress
       THEN IF threw
            THEN /\ Run(r, [runner.run[r] EXCEPT !.pc = "resolved",
                                !.progress = @ + 1, !.resolutions = @ + 1,
                                !.result = CallbackFailed])
                 /\ abortController' = Null
                 /\ UNCHANGED aborted
            ELSE /\ Run(r, [runner.run[r] EXCEPT !.progress = @ + 1])
                 /\ UNCHANGED runnerVars
       ELSE UNCHANGED <<runner, runnerVars>>
    /\ UNCHANGED <<handlerVars, faults, gitVars, wtVars, prompt, context, server>>

\* StreamEnds letting an exception of the stream escape
StreamEnds_Rethrow(r, o) ==
    /\ runner.run[r].pc = "streaming"
    /\ (o.kind = "abort") <=> aborted[r]
    /\ Run(r, IF o.kind = "throw"
              THEN [runner.run[r] EXCEPT !.pc = "rejected"]
              ELSE [runner.run[r] EXCEPT !.pc = "resolved", !.resolutions = @ + 1,
                                         !.result = ClaudeRunResult(o)])
    /\ abortController' = Null
    /\ UNCHANGED <<handlerVars, aborted, faults, gitVars, wtVars, prompt, context, server>>

\* the stream ends (result message, end of stream, exception, AbortError):
\* run returns its result and the finally block clears the field
StreamEnds(r, o) ==
    /\ runner.run[r].pc = "streaming"
    /\ (o.kind = "abort") <=> aborted[r]
    /\ Run(r, [runner.run[r] EXCEPT !.pc = "resolved", !.resolutions = @ + 1,
                                    !.result = ClaudeRunResult(o)])
    /\ abortController' = Null
    /\ UNCHANGED <<handlerVars, aborted, faults, gitVars, wtVars, prompt, context, server>>

\* the runs in flight
InFlight == {r \in Tasks : runner.run[r].pc = "streaming"}

\* stop() called on the runner
StopCalled ==
    /\ runner.stops < MaxStops
    /\ RunnerStop
    /\ runner' = [runner EXCEPT
            !.stops = @ + 1,
            !.run = [r \in Tasks |->
                        IF InFlight = {r} THEN [runner.run[r] EXCEPT !.stopped = TRUE]
                        ELSE runner.run[r]]]
    /\ UNCHANGED <<handlerVars, faults, gitVars, wtVars, prompt, context, server>>

\* one runner, as startCommand makes it, whose run and stop are called in
\* any order
RunnerInit ==
    /\ ComponentInit
    /\ HandlerInit
    /\ config = "claude"
    /\ linearAccessToken = FALSE

RunnerNext ==
    \/ \E r \in Tasks, onProgress \in BOOLEAN : RunCalled(r, onProgress)
    \/ \E r \in Tasks, b \in Blocks, threw \in BOOLEAN : StreamYields(r, b, threw)
    \/ \E r \in Tasks, o \in SdkOutcomes : StreamEnds(r, o)
    \/ StopCalled

RunnerSpec == RunnerInit /\ [][RunnerNext]_vars

\* ------------------------------------------ buildPromptFromSession applied
\* handleAgentSession builds the message of an event
BuildPrompt ==
    /\ ~prompt.built
    /\ prompt' = [prompt EXCEPT !.built = TRUE,
                                !.message = buildPromptFromSession(prompt.event)]
    /\ UNCHANGED <<handlerVars, runnerVars, faults, gitVars, wtVars, runner,
                   context, server>>

\* any event
PromptInit ==
    /\ HandlerInit
    /\ config = "claude"
    /\ linearAccessToken = FALSE
    /\ isRepository = TRUE
    /\ worktrees = <<MainEntry>>
    /\ branches = {MainEntry.branch}
    /\ wt = [k \in Tasks |-> IdleOp]
    /\ wtCalls = 0
    /\ acquired = {}
    /\ runner = NoRuns
    /\ prompt \in {[NoPrompt EXCEPT !.event = e] : e \in SessionEvents}
    /\ context = NoBuild
    /\ server = NoServer

PromptNext == BuildPrompt

PromptSpec == PromptInit /\ [][PromptNext]_vars

\* ---------------------------------------------------- buildContext applied
\* handleAgentSession step 4: the context of the agent for a working directory
BuildContext ==
    /\ ~context.built
    /\ context' = [context EXCEPT
            !.built = TRUE,
            !.result = buildContext(context.agent, context.workingDirectory,
                                    context.token)]
    /\ UNCHANGED <<handlerVars, runnerVars, faults, gitVars, wtVars, runner, prompt,
                   server>>

\* any agent definition, any token, a workspace or the repository root
ContextInit ==
    /\ HandlerInit
    /\ config = "claude"
    /\ linearAccessToken = FALSE
    /\ isRepository = TRUE
    /\ worktrees = <<MainEntry>>
    /\ branches = {MainEntry.branch}
    /\ wt = [k \in Tasks |-> IdleOp]
    /\ wtCalls = 0
    /\ acquired = {}
    /\ runner = NoRuns
    /\ prompt = NoPrompt
    /\ context \in [built : {FALSE}, agent : AgentConfigs, token : AccessTokens,
                    workingDirectory : {RepositoryPath, WorktreePath(IssueOf("s1"))},
                    result : {NoContext}]
    /\ server = NoServer

ContextNext == BuildContext

ContextSpec == ContextInit /\ [][ContextNext]_vars

\* ------------------------------------------------------- the local server
\* the server gets a request and answers it
Receive(r) ==
    /\ Len(server.handled) < MaxRequests
    /\ server' = [server EXCEPT !.handled =
            Append(@, [request |-> r, response |-> onWebhook(server.secret, r)])]
    /\ UNCHANGED <<handlerVars, runnerVars, faults, gitVars, wtVars, runner, prompt,
                   context>>

\* the server started with or without LINEAR_WEBHOOK_SECRET
WebhookInit ==
    /\ HandlerInit
    /\ config = "claude"
    /\ linearAccessToken = FALSE
    /\ isRepository = TRUE
    /\ worktrees = <<MainEntry>>
    /\ branches = {MainEntry.branch}
    /\ wt = [k \in Tasks |-> IdleOp]
    /\ wtCalls = 0
    /\ acquired = {}
    /\ runner = NoRuns
    /\ prompt = NoPrompt
    /\ context = NoBuild
    /\ server \in {[NoServer EXCEPT !.secret = k] : k \in WebhookSecrets}

WebhookNext == \E r \in Requests : Receive(r)

WebhookSpec == WebhookInit /\ [][WebhookNext]_vars

\* ------------------------------------------------------------------ properties
SessionOf(t) == call[t].ev.sessionId

\* runner.run was invoked by call t and has not resolved
Executing(t) == call[t].pc = "running"

\* call t is between activeSessions.set and the finally block
InRunScope(t) == call[t].pc \in {"running", "terminal"}

\* how many activities of a type a call has sent
Count(seq, type) == Cardinality({i \in DOMAIN seq : seq[i].type = type})

\* C1: at every moment a session id is in the registry if and only if a run
\* started by handleAgentSession for that session id is currently executing.
C1_RegistryIffExecuting ==
    \A s \in Sessions :
        s \in activeSessions <=> \E t \in Tasks : SessionOf(t) = s /\ Executing(t)

\* C2: after a run ends in any way (outcome, cancellation, rejected terminal
\* send) its session id is removed from the registry, and whenever no call is
\* between registration and cleanup the registry is empty: every id in the
\* registry belongs to a call that is still in that scope.
C2_NoLeak ==
    /\ [](\A s \in activeSessions : \E t \in Tasks : SessionOf(t) = s /\ InRunScope(t))
    /\ [][\A t \in Tasks :
            InRunScope(t) /\ call'[t].pc \notin {"running", "terminal"}
                => SessionOf(t) \notin activeSessions']_vars

\* a run has ended through the rejected terminal send and nothing is registered
C2_Witness ==
    \E t \in Tasks :
        /\ call[t].pc = "catchErr"
        /\ call[t].result # NoResult
        /\ activeSessions = {}

\* a stop signal arrives at call t in this step
StopArrives(t) ==
    /\ call[t].pc = "idle"
    /\ call'[t].pc # "idle"
    /\ call'[t].ev.signal = "stop"

\* C3: when a stop signal arrives for a session id that is in the registry,
\* the coordinator invokes the runner's stop() (aborting the controller the
\* runner holds), then removes the id from the registry and sends the
\* response 'Stopped as requested.' addressed to that session id; the stop
\* call always gets that far.
C3_StopPresent ==
    /\ [][\A t \in Tasks :
            /\ StopArrives(t) /\ call'[t].ev.sessionId \in activeSessions
                => /\ call'[t].pc = "stopping"
                   /\ call'[t].stopCalledBy
                   /\ abortController # Null => aborted'[abortController]
                   /\ abortController' = Null
            /\ call[t].pc = "stopping" /\ call'[t] # call[t]
                => /\ call'[t].pc = "stopResp"
                   /\ SessionOf(t) \notin activeSessions'
                   /\ call'[t].sent =
                          <<Addressed(SessionOf(t), Response("Stopped as requested."))>>]_vars
    /\ \A t \in Tasks : (call[t].pc = "stopping") ~> (call[t].pc = "stopResp")

\* a stop call has sent its response while the stopped session is unregistered
C3_Witness ==
    \E t \in Tasks :
        /\ call[t].pc = "stopResp"
        /\ call[t].stopCalledBy
        /\ call[t].sent = <<Addressed(SessionOf(t), StoppedResponse)>>
        /\ SessionOf(t) \notin activeSessions

\* C4: 'Stopped as requested.' is the terminal activity of the stopped run:
\* once it has been sent, the call that started the stopped run sends no
\* further response or error activity.
C4_StoppedIsTerminal ==
    [][\A r \in Tasks :
         stoppedRun[r] /\ Len(call'[r].sent) > Len(call[r].sent)
            => call'[r].sent[Len(call'[r].sent)].type \notin {"response", "error"}]_vars

\* C5: a stop signal for a session id that is not in the registry is a
\* no-op: the call returns at once (it awaits no send, it does not reject),
\* runner.stop() is not invoked, and the registry, the runner, every other
\* call and every pending send are left as they were.
C5_AbsentStopIsNoop ==
    [][\A t \in Tasks :
         StopArrives(t) /\ call'[t].ev.sessionId \notin activeSessions
            => /\ call'[t] = DoneCall(call'[t].ev)
               /\ \A u \in Tasks \ {t} : call'[u] = call[u]
               /\ UNCHANGED <<activeSessions, regOwner, abortController, aborted,
                              stoppedRun, inflight, progressCount, faults>>]_vars

\* the same absent session was stopped twice, next to nothing registered
C5_Witness ==
    /\ \A t \in Tasks : call[t].pc = "done" /\ call[t].ev.signal = "stop"
    /\ \A t, u \in Tasks : SessionOf(t) = SessionOf(u)
    /\ activeSessions = {}

\* C6: the stopped state is entered only from the executing state: when a
\* stop call finds its session in the registry and stops it, a run for that
\* session has been invoked and has not yet resolved.
C6_StoppedOnlyFromExecuting ==
    [][\A t \in Tasks :
         StopArrives(t) /\ call'[t].pc = "stopping"
            => \E r \in Tasks : SessionOf(r) = call'[t].ev.sessionId /\ Executing(r)]_vars

\* C7: runner.stop() is invoked, and a controller is aborted, only in a step
\* that handles an event whose signal is 'stop' and whose session id is in
\* the registry at that moment.
C7_StopOnlyOnStopSignal ==
    [][/\ \A t \in Tasks :
            ~call[t].stopCalledBy /\ call'[t].stopCalledBy
                => StopArrives(t) /\ call'[t].ev.sessionId \in activeSessions
       /\ (\E r \in Tasks : ~aborted[r] /\ aborted'[r])
            => \E t \in Tasks :
                  StopArrives(t) /\ call'[t].ev.sessionId \in activeSessions]_vars

\* runner.stop() has aborted the controller of a run in flight
C7_Witness ==
    \E t, r \in Tasks :
        /\ call[t].pc = "stopping"
        /\ call[t].stopCalledBy
        /\ call[r].pc = "running"
        /\ aborted[r]

\* C8: for a non-stop event the acknowledgment thought is the first thing
\* the call does: while it is pending nothing else has happened (no other
\* send, no provisioning, no context, no run), and every later position of
\* the call has it as its first send.
C8_AckFirst ==
    \A t \in Tasks :
        call[t].ev.signal = "none" /\ call[t].pc \notin {"idle", "done", "rejected"}
            => /\ Len(call[t].sent) >= 1
               /\ call[t].sent[1] =
                      Addressed(SessionOf(t), Thought("Sniffing out the issue..."))
               /\ call[t].pc = "ack"
                    => call[t] = [IdleCall EXCEPT !.pc = "ack", !.ev = call[t].ev,
                                                  !.sent = <<call[t].sent[1]>>]

\* a run is executing in a provisioned workspace, after the acknowledgment
C8_Witness ==
    \E t \in Tasks :
        /\ call[t].pc = "running"
        /\ call[t].createCalled
        /\ call[t].sent[1] = Addressed(SessionOf(t), AckThought)

\* C9: when WorktreeManager.create raises the call does not abort: it goes
\* on to the context build with the unmodified repository path; with a
\* runner configured it is on its way to runner.run, in the run or at the
\* run's terminal activity (it is in the catch block only if a send rejected
\* as well); runner.run is invoked with workingDirectory equal to the
\* repository path, and the run's terminal activity is sent when it resolves.
C9_ProvisioningFallback ==
    \A t \in Tasks :
        call[t].createRaised
            => /\ call[t].worktreePath = RepositoryPath
               /\ call[t].pc \in {"noRunnerErr", "prefetch", "trail", "running",
                                  "terminal", "catchErr"}
               /\ call[t].pc = "catchErr" => call[t].sendFailed
               /\ call[t].pc = "noRunnerErr" => config = "noRunner"
               /\ config = "claude" /\ ~call[t].sendFailed
                    => call[t].pc \in {"prefetch", "trail", "running", "terminal"}
               /\ InRunScope(t) => call[t].runCwd = RepositoryPath
               /\ call[t].pc = "terminal"
                    => /\ call[t].result # NoResult
                       /\ call[t].sent[Len(call[t].sent)].type
                              = IF call[t].result.success THEN "response" ELSE "error"

\* create raised and the run has resolved successfully in the repository root
C9_Witness ==
    \E t \in Tasks :
        /\ call[t].createRaised
        /\ call[t].pc = "terminal"
        /\ call[t].runCwd = RepositoryPath
        /\ call[t].result.success

ExpectedTerminal(sid, r) ==
    IF r.success
    THEN [to |-> sid, type |-> "response", ephemeral |-> FALSE, param |-> <<>>,
          body |-> IF r.output = "" THEN "Tracked it down." ELSE r.output]
    ELSE [to |-> sid, type |-> "error", ephemeral |-> FALSE, param |-> <<>>,
          body |-> IF r.error = "" THEN "Unknown error occurred" ELSE r.error]

C11_NeverRejects ==
    \A t \in Tasks : call[t].pc # "rejected"

\* C12: a failed delivery of the acknowledgment, of the 'Preparing' action or
\* of 'Following the trail...' is ignored: with an agent and a runner
\* configured the call still invokes runner.run, so it is in the catch block
\* only after its run has resolved (its terminal send was rejected), and a
\* call whose 'Preparing' send failed still provisions its worktree.
C12_SendFailureIgnored ==
    \A t \in Tasks :
        config = "claude" /\ call[t].ev.signal = "none"
            => /\ call[t].pc = "catchErr" => call[t].result # NoResult
               /\ call[t].pc \in {"prefetch", "trail", "running", "terminal"}
                    => call[t].createCalled

\* a progress send of call t's run is rejected in this step
ProgressSendRejected(t) ==
    /\ inflight'[t] < inflight[t]
    /\ faults' > faults

\* C13: a rejected progress send does not interrupt the run (the step leaves
\* the call where it is, the runner and the registry as they were), does not
\* change its outcome (the run is not aborted and can still resolve
\* successfully, and the terminal activity sent is the one of the result),
\* and does not prevent what comes later: the next progress event is still
\* handed to the callback, and the terminal activity is still sent.
C13_ProgressFailureIsolated ==
    /\ [][\A t \in Tasks :
            ProgressSendRejected(t)
                => /\ call'[t] = [call[t] EXCEPT !.progressFailed =
                                      @ \/ call[t].pc \in {"running", "terminal"}]
                   /\ \A u \in Tasks \ {t} : call'[u] = call[u]
                   /\ UNCHANGED <<activeSessions, regOwner, abortController, aborted,
                                  stoppedRun, progressCount>>]_vars
    /\ [](\A t \in Tasks :
            call[t].progressFailed
                => /\ call[t].pc \in {"running", "terminal", "catchErr"}
                   /\ call[t].pc = "catchErr" => call[t].sendFailed
                   /\ call[t].pc = "running"
                        => /\ ~aborted[t]
                           /\ ENABLED RunResolves(t, [kind |-> "success",
                                                       text |-> "Fixed it."])
                           /\ ENABLED ProgressCallback(t, Content("thinking", "hmm"))
                   /\ call[t].pc = "terminal"
                        => call[t].sent[Len(call[t].sent)]
                              = Addressed(SessionOf(t), TerminalActivity(call[t].result)))

\* after a rejected progress send the run went on, reported another progress
\* event and resolved successfully; its response is being sent
C13_Witness ==
    \E t \in Tasks :
        /\ call[t].progressFailed
        /\ call[t].pc = "terminal"
        /\ call[t].result.success
        /\ Len(call[t].produced) = 2
        /\ inflight[t] = 1
        /\ call[t].sent[Len(call[t].sent)].type = "response"

\* C14: for each inbound event runner.run is invoked at most once: a call's
\* count of invocations never exceeds one, and it goes up only in the step
\* after 'Following the trail...', never after a failure outcome, an
\* exception of the run or a provisioning failure.
C14_AtMostOneRun ==
    /\ [](\A t \in Tasks : call[t].runs <= 1)
    /\ [][\A t \in Tasks :
            call'[t].runs # call[t].runs
                => /\ call[t].pc = "trail"
                   /\ call[t].runs = 0
                   /\ call[t].result = NoResult
                   /\ call'[t].pc = "running"]_vars

\* a run that followed a provisioning failure ended with an exception of the
\* SDK, after one invocation
C14_Witness ==
    \E t \in Tasks :
        /\ call[t].createRaised
        /\ call[t].pc = "terminal"
        /\ call[t].result.error = "sdk failed"
        /\ call[t].runs = 1

\* a payload whose agentSession.id or agentSession.issue is missing
Malformed(p) == p.sessionId = "" \/ ~p.issue

\* C15: a payload with a missing session id or a missing work item is
\* dropped before any session context exists: parseAgentSessionEvent returns
\* null for it, handleAgentSession is not called (every call that was made
\* handles an event with a session id), and the step that drops it creates no
\* registry entry, sends no activity and touches nothing else.
C15_MalformedDropped ==
    /\ [](\A p \in Payloads : Malformed(p) => parseAgentSessionEvent(p) = NoEvent)
    /\ [](\A t \in Tasks :
            /\ call[t].pc \notin {"idle", "dropped"}
                => call[t].ev \in Events /\ call[t].payload = NoPayload
            /\ call[t].pc = "dropped"
                => call[t] = DroppedCall(call[t].payload))
    /\ [][\A t \in Tasks :
            call[t].pc = "idle" /\ call'[t].pc = "dropped"
                => /\ \A u \in Tasks \ {t} : call'[u] = call[u]
                   /\ UNCHANGED <<activeSessions, regOwner, abortController, aborted,
                                  stoppedRun, inflight, progressCount, faults>>]_vars

\* a payload without a session id was dropped while a run is registered
C15_Witness ==
    \E t, u \in Tasks :
        /\ call[t].pc = "dropped"
        /\ call[t].payload.type = "AgentSessionEvent"
        /\ call[t].payload.action = "created"
        /\ call[t].payload.sessionId = ""
        /\ call[t].payload.issue
        /\ call[t].sent = <<>>
        /\ call[u].pc = "running"
        /\ activeSessions = {SessionOf(u)}

\* the sends a call makes before runner.run when an agent and a runner are
\* configured and no token is set: acknowledgment, 'Preparing', 'Following
\* the trail...'
SetupSends == Len(<<AckThought, PreparingAction, TrailThought>>)

\* the sends of call record c that its progress callback made
ProgressSent(c) ==
    SubSeq(c.sent, SetupSends + 1,
           CASE c.pc = "terminal" -> Len(c.sent) - 1
             [] c.pc = "catchErr" /\ c.result # NoResult -> Len(c.sent) - 2
             [] OTHER -> Len(c.sent))

\* call t's run has been invoked and its record still holds the run's events
RunInvoked(t) == call[t].runs = 1 /\ call[t].pc \in {"running", "terminal", "catchErr"}

\* the activities of a sequence of progress events, events without one skipped
RECURSIVE ActivitiesOf(_, _)
ActivitiesOf(sid, events) ==
    IF events = <<>> THEN <<>>
    ELSE (IF ProgressActivity(Head(events)) = NoActivity THEN <<>>
          ELSE <<Addressed(sid, ProgressActivity(Head(events)))>>)
         \o ActivitiesOf(sid, Tail(events))

\* C16: within one session the activities produced from progress events are
\* sent in the order in which the runner produced the events: the progress
\* sends of a run are, in order, the activities of the events it reported.
C16_ProgressOrder ==
    \A t \in Tasks :
        RunInvoked(t)
            => ProgressSent(call[t]) = ActivitiesOf(SessionOf(t), call[t].produced)

\* an Edit and then a Read were reported and sent in that order
C16_Witness ==
    \E t \in Tasks :
        /\ call[t].pc = "running"
        /\ Len(call[t].produced) = 2
        /\ call[t].produced[1].tool = "Edit"
        /\ call[t].produced[2].tool = "Read"
        /\ Len(call[t].sent) = SetupSends + 2
        /\ call[t].sent[SetupSends + 1].type = "action"
        /\ call[t].sent[SetupSends + 2].ephemeral

\* the visible trail of a session after the sink received seq in order: an
\* ephemeral activity is replaced by the next activity that arrives
RECURSIVE Trail(_)
Trail(seq) ==
    IF seq = <<>> THEN <<>>
    ELSE LET before == Trail(SubSeq(seq, 1, Len(seq) - 1))
             kept == IF before # <<>> /\ before[Len(before)].ephemeral
                     THEN SubSeq(before, 1, Len(before) - 1)
                     ELSE before
         IN  Append(kept, seq[Len(seq)])

\* a tool use that is neither a subtask spawn nor a file modification
ReadOnly(p) == p.type = "tool_use" /\ p.tool \notin {"Task", "Edit", "Write"}

\* an event the progress mapping shows
Visible(p) ==
    \/ p.type \in {"tool_use", "thinking"}
    \/ p.type = "output" /\ Len(p.content) > 20

\* where in c.sent the activity of c's i-th progress event is
SentIndex(c, i) == SetupSends + Cardinality({j \in 1..i : Visible(c.produced[j])})

\* C17: read-only tool-use events leave at most one current transient
\* activity at every point of the trace: each is sent as an ephemeral
\* thought, the visible trail holds at most one ephemeral activity, its
\* newest entry, and a run that reported only read-only events has added at
\* most one entry to the trail, however many events it reported.
C17_EphemeralNeverAccumulates ==
    \A t \in Tasks :
        RunInvoked(t)
            => LET c == call[t]
                   trail == Trail(c.sent)
               IN  /\ \A i \in DOMAIN c.produced :
                         ReadOnly(c.produced[i])
                            => /\ c.sent[SentIndex(c, i)].ephemeral
                               /\ c.sent[SentIndex(c, i)].type = "thought"
                   /\ \A k \in DOMAIN trail : trail[k].ephemeral => k = Len(trail)
                   /\ (\A i \in DOMAIN c.produced : ReadOnly(c.produced[i]))
                        /\ c.pc = "running"
                        => Len(trail) <= SetupSends + 1

\* two read-only tool uses were reported and sent; the trail shows one
C17_Witness ==
    \E t \in Tasks :
        /\ call[t].pc = "running"
        /\ Len(call[t].produced) = 2
        /\ \A i \in 1..2 : ReadOnly(call[t].produced[i])
        /\ Len(call[t].sent) = SetupSends + 2
        /\ Len(Trail(call[t].sent)) = SetupSends + 1

\* the generic label of transient activities
GenericLabel == "Nose to the ground..."

\* C18: every tool_use progress event maps to exactly one activity chosen by
\* the first matching rule: 'Task' gives a persistent action labelled with
\* the subtask's description ('Running subtask' when there is none) and the
\* subagent type as parameter; 'Edit' or 'Write' gives a persistent action
\* labelled 'Editing' or 'Writing' with the file path as shortenPath renders
\* it (empty when there is none); any other tool gives an ephemeral thought
\* with the generic label.
C18_ToolUseMapping ==
    \A t \in Tasks :
        RunInvoked(t)
            => LET c == call[t]
               IN  /\ Len(ProgressSent(c))
                          = Cardinality({j \in DOMAIN c.produced : Visible(c.produced[j])})
                   /\ \A i \in DOMAIN c.produced :
                         LET p == c.produced[i]
                             a == c.sent[SentIndex(c, i)]
                         IN  p.type = "tool_use"
                               => /\ a.to = SessionOf(t)
                                  /\ p.tool = "Task"
                                       => /\ a.type = "action" /\ ~a.ephemeral
                                          /\ a.body = IF p.description = ""
                                                      THEN "Running subtask"
                                                      ELSE p.description
                                          /\ a.param = IF p.subagent = "" THEN <<>>
                                                       ELSE <<p.subagent>>
                                  /\ p.tool \in {"Edit", "Write"}
                                       => /\ a.type = "action" /\ ~a.ephemeral
                                          /\ p.tool = "Edit" => a.body = "Editing"
                                          /\ p.tool = "Write" => a.body = "Writing"
                                          /\ a.param = IF p.filePath = <<>> THEN <<>>
                                                       ELSE shortenPath(p.filePath)
                                  /\ p.tool \notin {"Task", "Edit", "Write"}
                                       => /\ a.type = "thought" /\ a.ephemeral
                                          /\ a.body = GenericLabel
                                          /\ a.param = <<>>

\* a described subtask spawn and a Write were reported and mapped
C18_Witness ==
    \E t \in Tasks :
        /\ call[t].pc = "running"
        /\ Len(call[t].produced) = 2
        /\ call[t].produced[1].tool = "Task"
        /\ call[t].produced[1].description # ""
        /\ call[t].produced[2].tool = "Write"
        /\ call[t].sent[SetupSends + 1].body = call[t].produced[1].description
        /\ call[t].sent[SetupSends + 2].body = "Writing"
        /\ call[t].sent[SetupSends + 2].param = shortenPath(LongestPath)

\* the threshold of output content, in characters
OutputThreshold == 20

\* C19: an output event yields a persistent thought carrying its content
\* exactly when the content is longer than 20 characters and no activity
\* otherwise; a thinking event always yields an ephemeral thought with the
\* generic label, never a persistent one and never its content.
C19_OutputAndThinking ==
    \A t \in Tasks :
        RunInvoked(t)
            => LET c == call[t]
                   shown == {j \in DOMAIN c.produced :
                                \/ c.produced[j].type \in {"tool_use", "thinking"}
                                \/ /\ c.produced[j].type = "output"
                                   /\ Len(c.produced[j].content) > OutputThreshold}
                   at(i) == c.sent[SetupSends + Cardinality({j \in shown : j <= i})]
               IN  /\ Len(ProgressSent(c)) = Cardinality(shown)
                   /\ \A i \in shown :
                         /\ c.produced[i].type = "output"
                              => at(i) = Addressed(SessionOf(t),
                                                   Thought(c.produced[i].content))
                         /\ c.produced[i].type = "thinking"
                              => /\ at(i) = Addressed(SessionOf(t),
                                                      EphemeralThought(GenericLabel))
                                 /\ at(i).body # c.produced[i].content

\* an output of exactly 20 characters was dropped, one of 21 was sent
C19_Witness ==
    \E t \in Tasks :
        /\ call[t].pc = "running"
        /\ Len(call[t].produced) = 2
        /\ call[t].produced[1].type = "output"
        /\ Len(call[t].produced[1].content) = OutputThreshold
        /\ call[t].produced[2].type = "output"
        /\ Len(call[t].produced[2].content) = OutputThreshold + 1
        /\ Len(call[t].sent) = SetupSends + 1
        /\ call[t].sent[SetupSends + 1].body = call[t].produced[2].content
        /\ ~call[t].sent[SetupSends + 1].ephemeral

\* the segments of a path: the names between its slashes
Segments(f) == SelectSeq(Split(f), LAMBDA piece : piece # <<>>)

\* C20: shortenPath returns the path unchanged when it has at most three
\* segments, and otherwise an ellipsis marker followed by exactly the last
\* three segments of the path: that is what the action of every Edit or Write
\* with a file path shows.
C20_PathShortening ==
    \A t \in Tasks :
        RunInvoked(t)
            => \A i \in DOMAIN call[t].produced :
                  LET p == call[t].produced[i]
                      segs == Segments(p.filePath)
                  IN  p.tool \in {"Edit", "Write"} /\ p.filePath # <<>>
                        => call[t].sent[SentIndex(call[t], i)].param
                             = IF Len(segs) <= 3
                               THEN p.filePath
                               ELSE <<".", ".", ".", "/">>
                                    \o Join(SubSeq(segs, Len(segs) - 2, Len(segs)))

\* --------------------------------------------------------------------------
\* the calls of create, get and remove that have computed their path
PathCalls == {k \in Tasks : wt[k].op \in {"create", "get", "remove"}}

\* C21: the path create, get and remove derive for an identifier is the base
\* directory joined with the sanitized identifier, whatever the state of the
\* repository and whatever was called before: two calls with the same
\* identifier hold the same path, and create and get return that path.
C21_PathOfIdentifier ==
    /\ \A k \in PathCalls :
         /\ wt[k].worktreePath = BasePath \o <<"/">> \o sanitizeId(wt[k].issueId)
         /\ (wt[k].pc = "returned" /\ wt[k].op # "remove")
                => wt[k].result = wt[k].worktreePath
    /\ \A k, j \in PathCalls :
         wt[k].issueId = wt[j].issueId => wt[k].worktreePath = wt[j].worktreePath

\* create has added a working copy for an identifier with a character that
\* is replaced, and get returns the same path for that identifier afterwards
C21_Witness ==
    \E k, j \in Tasks :
        /\ wt[k].op = "create" /\ wt[k].pc = "returned" /\ wt[k].attempts > 0
        /\ wt[j].op = "get" /\ wt[j].issueId = wt[k].issueId
        /\ wt[k].issueId # sanitizeId(wt[k].issueId)
        /\ Registered(worktrees, wt[j].result)
        /\ wt[j].result = wt[k].result

\* C22: a create call for an identifier that create has already returned a
\* path for (and that remove was not called for since) does not raise and
\* returns that same path; and a call whose list output contained the path
\* returns it without having issued a `git worktree add`.
C22_AcquireTwice ==
    \A k \in Tasks :
        wt[k].op = "create" =>
            /\ wt[k].again => /\ wt[k].pc # "raised"
                              /\ wt[k].pc = "returned"
                                    => wt[k].result = WorktreePath(wt[k].issueId)
            /\ wt[k].reused => wt[k].pc = "returned" /\ wt[k].attempts = 0

\* git made the working copy of call k in this step
Provisioned(k) ==
    /\ ~Registered(worktrees, wt[k].worktreePath)
    /\ worktrees' = Append(worktrees, Entry(wt[k].worktreePath, wt[k].branchName))

\* C23: when the first attempt of create (`git worktree add -b`) fails, for an
\* existing branch or anything else, the call does not raise but makes the
\* second attempt (`git worktree add path branch`); when git makes the working
\* copy in an attempt the call returns the path; it raises only when the
\* second attempt has failed as well, and never makes a third attempt.
C23_RetryOnExistingBranch ==
    [][\A k \in Tasks :
        /\ (wt[k].pc = "add" /\ wt'[k] # wt[k])
              => IF Provisioned(k)
                 THEN wt'[k].pc = "returned" /\ wt'[k].result = wt[k].worktreePath
                      /\ wt'[k].attempts = 1
                 ELSE wt'[k].pc = "attach" /\ wt'[k].attempts = 2
                      /\ UNCHANGED worktrees
        /\ (wt[k].pc = "attach" /\ wt'[k] # wt[k])
              => IF Provisioned(k)
                 THEN wt'[k].pc = "returned" /\ wt'[k].result = wt[k].worktreePath
                 ELSE wt'[k].pc = "raised" /\ UNCHANGED worktrees
        /\ wt'[k].pc = "raised" => wt[k].pc \in {"attach", "raised"}
        /\ wt'[k].attempts <= 2]_vars

\* a call whose first attempt met the existing branch has returned the path of
\* the working copy its second attempt made
C23_Witness ==
    \E k \in Tasks :
        /\ wt[k].op = "create" /\ wt[k].pc = "returned"
        /\ wt[k].branchExisted /\ wt[k].attempts = 2
        /\ \E i \in DOMAIN worktrees :
              worktrees[i] = Entry(wt[k].result, wt[k].branchName)

\* C24: a call of remove never ends by raising: once its
\* `git worktree remove` has settled, with the working copy removed or with
\* the command failed, the call has returned.
C24_RemoveNeverRaises ==
    \A k \in Tasks :
        wt[k].op = "remove" =>
            /\ wt[k].pc \in {"remove", "returned"}
            /\ wt[k].cmdFailed => wt[k].pc = "returned"

\* a remove whose command failed has returned, and the working copy it was
\* called for is still registered
C24_Witness ==
    \E k \in Tasks :
        /\ wt[k].op = "remove" /\ wt[k].pc = "returned" /\ wt[k].cmdFailed
        /\ Registered(worktrees, wt[k].worktreePath)

\* path lies under the directory base
Under(base, path) ==
    /\ Len(path) > Len(base) + 1
    /\ SubSeq(path, 1, Len(base) + 1) = base \o <<"/">>

\* the paths of the working copies of a registry that lie under the base
\* directory, in the registry's order
RECURSIVE KnownUnderBase(_)
KnownUnderBase(registry) ==
    IF registry = <<>> THEN <<>>
    ELSE (IF Under(BasePath, Head(registry).path)
          THEN <<Head(registry).path>> ELSE <<>>)
         \o KnownUnderBase(Tail(registry))

\* C25: what list returns names exactly the working copies git knew when the
\* list command ran and whose path lies under the base directory, each of
\* them once and no other.
C25_ListExact ==
    \A k \in Tasks :
        (wt[k].op = "list" /\ wt[k].pc = "returned")
            => [i \in DOMAIN wt[k].result |-> wt[k].result[i].path]
                   = KnownUnderBase(wt[k].known)

\* two identifiers that differ only in characters outside [a-zA-Z0-9-_]
SameToken(a, b) ==
    /\ Len(a) = Len(b)
    /\ \A i \in DOMAIN a : a[i] = b[i] \/ (a[i] \notin SafeChars /\ b[i] \notin SafeChars)

\* call t has its working directory (its local worktreePath is set)
HasWorkdir(t) == call[t].worktreePath # <<>>

\* call t's working directory is the path worktreeManager.create returned
Isolated(t) == HasWorkdir(t) /\ call[t].createCalled /\ ~call[t].createRaised

\* two calls in progress for different work items
Concurrent(t, u) ==
    /\ t # u
    /\ HasWorkdir(t) /\ HasWorkdir(u)
    /\ IssueOf(SessionOf(t)) # IssueOf(SessionOf(u))

\* C26 as stated: two calls in progress for different work items never have
\* the same working directory.
C26_DistinctWorkdirs ==
    \A t, u \in Tasks :
        Concurrent(t, u) =>
            /\ call[t].worktreePath # call[u].worktreePath
            /\ (Executing(t) /\ Executing(u)) => call[t].runCwd # call[u].runCwd

\* C26: two calls in progress for different work items whose identifiers do
\* not sanitize to the same token, and for both of which create returned a
\* path, have different working directories, and their runs are given
\* different directories; a call for which create raised, or whose
\* 'Preparing' send was rejected, works in the repository root, and so does
\* every other such call.
C26_DistinctWorkspaces ==
    \A t, u \in Tasks :
        Concurrent(t, u) =>
            /\ (Isolated(t) /\ Isolated(u)
                /\ ~SameToken(IssueOf(SessionOf(t)), IssueOf(SessionOf(u))))
                  => /\ call[t].worktreePath # call[u].worktreePath
                     /\ (Executing(t) /\ Executing(u))
                            => call[t].runCwd # call[u].runCwd
            /\ ~Isolated(t) => call[t].worktreePath = RepositoryPath

\* two runs for different work items execute at the same time, each in the
\* working copy git made for its work item
C26_Witness ==
    \E t, u \in Tasks :
        /\ Concurrent(t, u) /\ Isolated(t) /\ Isolated(u)
        /\ Executing(t) /\ Executing(u)
        /\ Registered(worktrees, call[t].runCwd)
        /\ Registered(worktrees, call[u].runCwd)
        /\ call[t].runCwd # call[u].runCwd

\* C27: a call of run invokes onProgress only while it is streaming, and
\* only when it was given a callback; it resolves once, with a result, and
\* never rejects: an exception of the stream or of the callback gives a
\* failure result; once resolved it reports nothing more and stays resolved
\* with the same result.
C27_RunContract ==
    [][\A r \in Tasks :
        LET c == runner.run[r]
            d == runner'.run[r]
        IN  /\ d.pc # "rejected"
            /\ d.progress > c.progress => c.pc = "streaming" /\ c.onProgress
            /\ d.resolutions = (IF d.pc = "resolved" THEN 1 ELSE 0)
            /\ d.pc = "resolved" <=> d.result # NoResult
            /\ c.pc = "resolved" => d = c]_vars

\* a run has reported progress and then resolved with the failure result of
\* an exception thrown by the stream
C27_Witness ==
    \E r \in Tasks :
        /\ runner.run[r].pc = "resolved"
        /\ runner.run[r].progress > 0
        /\ runner.run[r].result =
              [success |-> FALSE, output |-> "", error |-> "sdk failed"]

\* C28: a run that was in flight, alone, when stop() was called resolves with
\* the failure result whose error is 'Task was stopped'.
C28_StopResolvesRun ==
    \A r \in Tasks :
        (runner.run[r].stopped /\ runner.run[r].pc = "resolved")
            => runner.run[r].result =
                  [success |-> FALSE, output |-> "", error |-> "Task was stopped"]

\* every call before call t handles another session than t
OthersElsewhere(t) ==
    \A u \in Tasks \ {t} :
        call[u].pc \in {"idle", "dropped"} \/ SessionOf(u) # SessionOf(t)

\* call t has sent its terminal activity: the response or error of its run,
\* or the error of the catch block
TerminalSent(t) == call[t].pc \in {"terminal", "catchErr"}

\* C29: an event that arrives for a session while the calls for other
\* sessions are anywhere in their handling, and stay there for any time or
\* forever, is acknowledged, gets its run invoked unless one of its own sends
\* is rejected, has its terminal activity sent and returns, provided its own
\* steps are scheduled.
C29_NoCrossBlocking ==
    LET t == NumTasks
        arrived == call[t].pc = "ack" /\ OthersElsewhere(t)
    IN  /\ arrived ~> (Executing(t) \/ call[t].sendFailed)
        /\ arrived ~> TerminalSent(t)
        /\ arrived ~> (call[t].pc = "done")

\* the last call has run its agent and returned while the call before it,
\* for another session, is still waiting for its git command, its run or its
\* send
C29_Witness ==
    \E u \in Tasks \ {NumTasks} :
        /\ call[NumTasks].pc = "done" /\ call[NumTasks].runs = 1
        /\ call[u].pc \in {"ack", "preparing", "create", "trail", "running", "terminal"}
        /\ SessionOf(u) # call[NumTasks].ev.sessionId
        /\ call[u].pc = "create" => wt[u].pc = "add"

\* the message has a piece that starts with head
HasSection(message, head) == \E i \in DOMAIN message : message[i].head = head

\* C30 as stated: the message of a 'created' event without description is
\* the title line and nothing else, and a message has a 'Description:'
\* section exactly when the description is not empty.
C30_TitleLineOnly ==
    prompt.built =>
        /\ (prompt.event.action = "created" /\ ~Truthy(prompt.event.description))
              => prompt.message = <<TitleLine(prompt.event)>>
        /\ HasSection(prompt.message, "Description:")
              <=> Truthy(prompt.event.description)

\* C30: every message starts with the title line; it has a 'Description:'
\* section, holding the description, exactly when the description is not
\* empty; without description it is the title line alone exactly when the
\* comment leaves no text once its mentions are removed and the event has no
\* prompt context, whatever the trigger.
C30_DescriptionSection ==
    prompt.built =>
        LET e == prompt.event
            bare == /\ ~(Truthy(e.comment) /\ Trim(StripMentions(e.comment.value)) # <<>>)
                    /\ e.promptContext = <<>>
        IN  /\ prompt.message[1] = TitleLine(e)
            /\ HasSection(prompt.message, "Description:") <=> Truthy(e.description)
            /\ Truthy(e.description)
                  => prompt.message[2] = Piece("Description:", e.description.value)
            /\ ~Truthy(e.description) => (prompt.message = <<TitleLine(e)>> <=> bare)

\* the message of a 'created' event without description that has a user
\* request and a context after its title line
C30_Witness ==
    /\ prompt.built
    /\ prompt.event.action = "created"
    /\ prompt.event.description = Undefined
    /\ Len(prompt.message) = 3
    /\ prompt.message[2] = Piece("User request:", <<"f", "i", "x", " ", "@", " ", "i", "t">>)
    /\ prompt.message[3].head = "Context:"

\* the integrations the agent definition declares / the context passes on
DeclaredIn(c) == c.agent.claude.mcpServers
PassedOn(c) == c.result.mcpServers
\* buildContext put an integration under 'linear' that was not declared
Supplied(c) == Declares(PassedOn(c), "linear") /\ ~Declares(DeclaredIn(c), "linear")

\* C31: a context that buildContext returns carries the Linear integration it
\* makes from the access token exactly when the token is set (and not empty)
\* and the agent declares nothing under 'linear'; every declared integration,
\* one under 'linear' included, is passed on as declared, nothing else is
\* added, and without a token the declared integrations are passed on as
\* they are (undefined stays undefined).
C31_LinearIntegration ==
    (context.built /\ context.result.present) =>
        /\ Supplied(context)
              <=> (Truthy(context.token) /\ ~Declares(DeclaredIn(context), "linear"))
        /\ Supplied(context)
              => PassedOn(context).servers["linear"] = LinearMcp(context.token)
        /\ \A n \in McpNames :
              Declares(DeclaredIn(context), n)
                 => /\ Declares(PassedOn(context), n)
                    /\ PassedOn(context).servers[n] = DeclaredIn(context).servers[n]
        /\ \A n \in McpNames :
              Declares(PassedOn(context), n)
                 => Declares(DeclaredIn(context), n) \/ n = "linear"
        /\ ~Truthy(context.token) => PassedOn(context) = DeclaredIn(context)

\* a token is set, the agent declares 'github' only, and the context carries
\* both the declared server and the supplied Linear one
C31_Witness ==
    /\ context.built /\ context.result.present
    /\ Truthy(context.token)
    /\ DOMAIN DeclaredIn(context).servers = {"github"}
    /\ DOMAIN PassedOn(context).servers = {"github", "linear"}
    /\ PassedOn(context).servers["linear"] = LinearMcp(context.token)

\* C32: a stop signal cancels only runs of its own session: whenever the
\* controller of a run is aborted, the step is the arrival of a stop signal
\* whose session id is the session id of that run.
C32_StopSparesOthers ==
    [][\A r \in Calls :
         (~aborted[r] /\ aborted'[r])
            => \E t \in Calls :
                  StopArrives(t) /\ call'[t].ev.sessionId = SessionOf(r)]_vars

\* C33: when a stop signal arrives for a session id that is in the registry,
\* the controller of every run of that session that is executing is aborted
\* in that step (so that the run resolves with 'Task was stopped'), whatever
\* other runs have started or ended on the runner since it began.
C33_StopCancelsOwnRun ==
    [][\A t \in Calls :
         (StopArrives(t) /\ call'[t].pc = "stopping")
            => \A r \in Calls :
                  (SessionOf(r) = call'[t].ev.sessionId /\ Executing(r))
                     => aborted'[r]]_vars

\* C34: when a call has started its terminal send (the response or error of
\* step 7), every send that its progress callback started has settled.
C34_TerminalAfterProgress ==
    \A t \in Tasks : call[t].pc = "terminal" => inflight[t] = 0

\* C35: a run whose working directory is the repository root belongs to a
\* call that called worktreeManager.create and saw it raise; the working
\* directory of every other run is the workspace path of its work item.
C35_RootOnlyAfterRaise ==
    \A t \in Tasks :
        InRunScope(t) =>
            /\ call[t].runCwd = RepositoryPath
                  => call[t].createCalled /\ call[t].createRaised
            /\ ~(call[t].createCalled /\ call[t].createRaised)
                  => call[t].runCwd = WorktreePath(IssueOf(SessionOf(t)))

\* C36: in the step in which a create call returns a path, git has a working
\* copy registered at exactly that path.
C36_ReturnedIsRegistered ==
    [][\A k \in Tasks :
         (wt[k].op = "create" /\ wt[k].pc \in {"list", "add", "attach"}
          /\ wt'[k].pc = "returned")
            => Registered(worktrees', wt'[k].result)]_vars

\* the working copies git has at a path
CopiesAt(path) == {i \in DOMAIN worktrees : worktrees[i].path = path}

\* C37: when two handlers have called worktreeManager.create for the same
\* work item in a repository, and no send or git command has failed on its
\* own, neither create call raises, two that have returned have returned the
\* same path, and git has at most one working copy at that path.
C37_ConcurrentCreate ==
    \A t, u \in Tasks :
        (/\ t # u
         /\ isRepository /\ faults = 0
         /\ wt[t].op = "create" /\ wt[u].op = "create"
         /\ wt[t].issueId = wt[u].issueId)
            => /\ wt[t].pc # "raised"
               /\ (wt[t].pc = "returned" /\ wt[u].pc = "returned")
                     => wt[t].result = wt[u].result
               /\ Cardinality(CopiesAt(wt[t].worktreePath)) <= 1

\* call t returns in this step
Ends(t) ==
    /\ call[t].pc \notin {"idle", "done", "rejected", "dropped"}
    /\ call'[t].pc \in {"done", "rejected"}

\* the error activity for the missing agent or the missing runner options
ConfigError ==
    IF config = "noAgent" THEN ErrorAct("No agent configured")
    ELSE ErrorAct("No runner configured for agent")

\* without an agent or without runner options nothing is ever registered and
\* runner.run is never invoked
NeverRuns ==
    config # "claude"
        => /\ activeSessions = {}
           /\ abortController = Null
           /\ \A t \in Tasks : call[t].runs = 0 /\ call[t].pc # "running"

C39_SignatureRequired ==
    \A i \in DOMAIN server.handled :
        LET h == server.handled[i]
        IN  (Truthy(server.secret) /\ h.response.dispatched # "none")
               => /\ Truthy(h.request.signature)
                  /\ h.request.signature.value
                         = HmacSha256Hex(server.secret.value, h.request.body)

====
